---- MODULE Spec2Model ----
(***************************************************************************)
(* Model of the invoice reconciliation engine (src/utils/comparator.ts)    *)
(* and of the helpers it uses.                                             *)
(*                                                                         *)
(* Strings are sequences of one-character strings, so that cleaning,       *)
(* normalisation, substring search and date reformatting are computed as   *)
(* the code computes them.  Amounts are integers counted in hundredths of  *)
(* a currency unit.                                                        *)
(***************************************************************************)
EXTENDS Integers, Sequences, FiniteSets, TLC

VARIABLES excelData, pdfData, results, matchedPdfIndices, finalResults, pc, index,
          id1, id2, idRet, callArgs, callRet, nullInputs, thrown, calls,
          newStats, app, runs, storage, clock

vars == <<excelData, pdfData, results, matchedPdfIndices, finalResults, pc, index,
          id1, id2, idRet, callArgs, callRet, nullInputs, thrown, calls,
          newStats, app, runs, storage, clock>>

\* the state of the App component and of the history in localStorage
appVars == <<app, runs, storage, clock>>

\* what a step of compareInvoices never touches: the arguments and results of
\* the helper functions called on their own, the null arguments and the error
\* of a call, and the invocations running beside it
others == <<id1, id2, idRet, callArgs, callRet, nullInputs, thrown, calls, newStats, appVars>>

(***************************************************************************)
(* Bounds of the model.                                                    *)
(***************************************************************************)
MaxExcel == 2
MaxPdf == 2
MaxIdLen == 4

(***************************************************************************)
(* Characters and strings.                                                 *)
(***************************************************************************)
DigitChars == <<"0", "1", "2", "3", "4", "5", "6", "7", "8", "9">>
UpperChars == <<"A", "B", "C", "D", "E", "F", "G", "H", "I", "J", "K", "L", "M",
                "N", "O", "P", "Q", "R", "S", "T", "U", "V", "W", "X", "Y", "Z">>
LowerChars == <<"a", "b", "c", "d", "e", "f", "g", "h", "i", "j", "k", "l", "m",
                "n", "o", "p", "q", "r", "s", "t", "u", "v", "w", "x", "y", "z">>

Range(s) == {s[k] : k \in 1..Len(s)}

DigitSet == Range(DigitChars)
LowerSet == Range(LowerChars)
UpperSet == Range(UpperChars)

IsDigit(c) == c \in DigitSet
IsLower(c) == c \in LowerSet
IsUpper(c) == c \in UpperSet

IndexOf(s, c) == CHOOSE k \in 1..Len(s) : s[k] = c

LowerOf == [c \in UpperSet |-> LowerChars[IndexOf(UpperChars, c)]]

\* String.prototype.toLowerCase, one character
toLowerCaseChar(c) == IF IsUpper(c) THEN LowerOf[c] ELSE c

toLowerCase(str) == [k \in 1..Len(str) |-> toLowerCaseChar(str[k])]

IsAlnumLower(c) == IsLower(c) \/ IsDigit(c)

\* str.toLowerCase().replace(/[^a-z0-9]/g, '')
cleanString(str) == SelectSeq(toLowerCase(str), IsAlnumLower)

\* /^\d+$/.test(s)
AllDigits(s) == Len(s) > 0 /\ \A k \in 1..Len(s) : IsDigit(s[k])

\* A non-negative integer Number is held as its decimal digits without leading
\* zeros; this is exact for numbers of up to 15 significant digits, the
\* decimal precision of a double.
RECURSIVE stripLeadingZeros(_)
stripLeadingZeros(s) ==
  IF Len(s) > 1 /\ s[1] = "0" THEN stripLeadingZeros(Tail(s)) ELSE s

RECURSIVE stripTrailingZeros(_)
stripTrailingZeros(s) ==
  IF Len(s) > 1 /\ s[Len(s)] = "0" THEN stripTrailingZeros(SubSeq(s, 1, Len(s) - 1)) ELSE s

\* parseInt(s, 10) of an all-digit string
parseInt(s) == stripLeadingZeros(s)

\* the decimal digits of a small natural number
RECURSIVE digitsOf(_)
digitsOf(n) ==
  IF n < 10 THEN <<DigitChars[n + 1]>>
  ELSE Append(digitsOf(n \div 10), DigitChars[(n % 10) + 1])

\* Number.prototype.toString writes integers below 10^21 in full
MaxPlainDigits == 21

\* Number.prototype.toString of a non-negative integer: its digits, or from
\* 10^21 on the exponent notation d.ddde+NN
toString(n) ==
  IF Len(n) <= MaxPlainDigits THEN n
  ELSE LET m == stripTrailingZeros(n)
       IN <<m[1]>> \o (IF Len(m) > 1 THEN <<".">> \o Tail(m) ELSE <<>>)
            \o <<"e", "+">> \o digitsOf(Len(n) - 1)

normalizeInvoiceId(id) ==
  LET cleaned == cleanString(id)
  IN IF AllDigits(cleaned) THEN toString(parseInt(cleaned)) ELSE cleaned

\* String.prototype.includes
includes(s, t) ==
  \E k \in 0..(Len(s) - Len(t)) : SubSeq(s, k + 1, k + Len(t)) = t

\* 1.0 currency unit, in hundredths
Epsilon == 100

\* the 1.0 written out in the calls for the three tax amounts, in hundredths
ExplicitEpsilon == 100

Abs(x) == IF x < 0 THEN -x ELSE x

\* compareNumbers with the boundary left out
compareNumbersBelow(num1, num2, epsilon) == Abs(num1 - num2) < epsilon

compareNumbersEps(num1, num2, epsilon) == Abs(num1 - num2) <= epsilon

compareNumbers(num1, num2) == compareNumbersEps(num1, num2, Epsilon)


\* isIdMatch with the containment test on the normalized forms
isIdMatchNormalized(a, b) ==
  LET n1 == normalizeInvoiceId(a)
      n2 == normalizeInvoiceId(b)
  IN \/ n1 = n2
     \/ Len(n1) > 2 /\ includes(n2, n1)
     \/ Len(n2) > 2 /\ includes(n1, n2)

isIdMatch(a, b) ==
  LET n1 == normalizeInvoiceId(a)
      n2 == normalizeInvoiceId(b)
      c1 == cleanString(a)
      c2 == cleanString(b)
  IN \/ n1 = n2
     \/ Len(c1) > 2 /\ includes(c2, c1)
     \/ Len(c2) > 2 /\ includes(c1, c2)

(***************************************************************************)
(* formatDateToDisplay (excelService) and normalizeDateForComparison.      *)
(***************************************************************************)
Unknown == <<"U", "n", "k", "n", "o", "w", "n">>

RECURSIVE trimStart(_)
trimStart(s) ==
  IF Len(s) > 0 /\ s[1] = " " THEN trimStart(Tail(s)) ELSE s

RECURSIVE trimEnd(_)
trimEnd(s) ==
  IF Len(s) > 0 /\ s[Len(s)] = " " THEN trimEnd(SubSeq(s, 1, Len(s) - 1)) ELSE s

trim(s) == trimEnd(trimStart(s))

\* s.replace(/\//g, '-')
slashesToDashes(s) == [k \in 1..Len(s) |-> IF s[k] = "/" THEN "-" ELSE s[k]]

\* s.split('-')
RECURSIVE split(_)
split(s) ==
  IF \A k \in 1..Len(s) : s[k] # "-" THEN <<s>>
  ELSE LET p == CHOOSE k \in 1..Len(s) :
                  s[k] = "-" /\ \A j \in 1..(k - 1) : s[j] # "-"
       IN <<SubSeq(s, 1, p - 1)>> \o split(SubSeq(s, p + 1, Len(s)))

\* part.padStart(2, '0')
padStart2(s) ==
  IF Len(s) >= 2 THEN s
  ELSE IF Len(s) = 1 THEN <<"0">> \o s
  ELSE <<"0", "0">>

\* /^\d{2}-\d{2}-\d{4}$/ for (2, 2, 4) and /^\d{4}-\d{2}-\d{2}$/ for (4, 2, 2)
DigitGroups(s, a, b, c) ==
  /\ Len(s) = a + b + c + 2
  /\ \A k \in 1..Len(s) :
       IF k = a + 1 \/ k = a + b + 2 THEN s[k] = "-" ELSE IsDigit(s[k])

Dash == <<"-">>

\* formatDateToDisplay that gives up with the empty string
formatDateToDisplayOrEmpty(dateStr) ==
  IF dateStr = <<>> \/ dateStr = Unknown THEN <<>>
  ELSE LET clean == slashesToDashes(trim(dateStr))
           parts == split(clean)
       IN IF DigitGroups(clean, 2, 2, 4) THEN clean
          ELSE IF DigitGroups(clean, 4, 2, 2)
            THEN parts[3] \o Dash \o parts[2] \o Dash \o parts[1]
          ELSE IF Len(parts) = 3 /\ Len(parts[3]) = 4
            THEN padStart2(parts[1]) \o Dash \o padStart2(parts[2]) \o Dash \o parts[3]
          ELSE IF Len(parts) = 3 /\ Len(parts[1]) = 4
            THEN padStart2(parts[3]) \o Dash \o padStart2(parts[2]) \o Dash \o parts[1]
          ELSE <<>>

formatDateToDisplay(dateStr) ==
  IF dateStr = <<>> \/ dateStr = Unknown THEN <<>>
  ELSE LET clean == slashesToDashes(trim(dateStr))
           parts == split(clean)
       IN IF DigitGroups(clean, 2, 2, 4) THEN clean
          ELSE IF DigitGroups(clean, 4, 2, 2)
            THEN parts[3] \o Dash \o parts[2] \o Dash \o parts[1]
          ELSE IF Len(parts) = 3 /\ Len(parts[3]) = 4
            THEN padStart2(parts[1]) \o Dash \o padStart2(parts[2]) \o Dash \o parts[3]
          ELSE IF Len(parts) = 3 /\ Len(parts[1]) = 4
            THEN padStart2(parts[3]) \o Dash \o padStart2(parts[2]) \o Dash \o parts[1]
          ELSE clean

normalizeDateForComparison(dateStr) == formatDateToDisplay(dateStr)

(***************************************************************************)
(* Values of a ComparisonField: string | number | undefined.               *)
(***************************************************************************)
Num(n) == [t |-> "number", n |-> n, s |-> <<>>]
Str(str) == [t |-> "string", n |-> 0, s |-> str]
Undefined == [t |-> "undefined", n |-> 0, s |-> <<>>]

\* An optional number is <<>> (absent) or <<n>>;  x || 0
OrZero(x) == IF x = <<>> THEN 0 ELSE x[1]

Field(fieldName, label, excelValue, pdfValue, isMatch) ==
  [fieldName |-> fieldName, label |-> label, excelValue |-> excelValue,
   pdfValue |-> pdfValue, isMatch |-> isMatch]

\* vendorNameMatch by equality alone
vendorNameEqual(excelInv, pdfInv) ==
  cleanString(excelInv.vendorName) = cleanString(pdfInv.vendorName)

vendorNameMatch(excelInv, pdfInv) ==
  \/ cleanString(excelInv.vendorName) = cleanString(pdfInv.vendorName)
  \/ includes(cleanString(excelInv.vendorName), cleanString(pdfInv.vendorName))
  \/ includes(cleanString(pdfInv.vendorName), cleanString(excelInv.vendorName))

buildFields(excelInv, pdfInv) ==
  << Field("vendorName", "Vendor Name",
           Str(excelInv.vendorName), Str(pdfInv.vendorName),
           vendorNameMatch(excelInv, pdfInv)),
     Field("gstNumber", "GST Number",
           Str(excelInv.gstNumber), Str(pdfInv.gstNumber),
           cleanString(excelInv.gstNumber) = cleanString(pdfInv.gstNumber)),
     Field("invoiceNumber", "Invoice Number",
           Str(excelInv.invoiceNumber), Str(pdfInv.invoiceNumber),
           isIdMatch(excelInv.invoiceNumber, pdfInv.invoiceNumber)),
     Field("invoiceDate", "Invoice Date",
           Str(excelInv.invoiceDate), Str(pdfInv.invoiceDate),
           normalizeDateForComparison(excelInv.invoiceDate)
             = normalizeDateForComparison(pdfInv.invoiceDate)),
     Field("taxableAmount", "Taxable (Base) Amount",
           Num(excelInv.taxableAmount), Num(pdfInv.taxableAmount),
           compareNumbers(excelInv.taxableAmount, pdfInv.taxableAmount)),
     Field("cgstAmount", "CGST",
           Num(OrZero(excelInv.cgstAmount)), Num(OrZero(pdfInv.cgstAmount)),
           compareNumbersEps(OrZero(excelInv.cgstAmount), OrZero(pdfInv.cgstAmount),
                             ExplicitEpsilon)),
     Field("sgstAmount", "SGST",
           Num(OrZero(excelInv.sgstAmount)), Num(OrZero(pdfInv.sgstAmount)),
           compareNumbersEps(OrZero(excelInv.sgstAmount), OrZero(pdfInv.sgstAmount),
                             ExplicitEpsilon)),
     Field("igstAmount", "IGST",
           Num(OrZero(excelInv.igstAmount)), Num(OrZero(pdfInv.igstAmount)),
           compareNumbersEps(OrZero(excelInv.igstAmount), OrZero(pdfInv.igstAmount),
                             ExplicitEpsilon)),
     Field("totalAmount", "Invoice Amount",
           Num(excelInv.totalAmount), Num(pdfInv.totalAmount),
           compareNumbers(excelInv.totalAmount, pdfInv.totalAmount)) >>


\* hasMismatch with every for some
hasMismatchEvery(fields) == \A k \in 1..Len(fields) : ~fields[k].isMatch

\* fields.some(f => !f.isMatch)
hasMismatch(fields) == \E k \in 1..Len(fields) : ~fields[k].isMatch

statusOf(fields) == IF hasMismatch(fields) THEN "MISMATCH" ELSE "MATCH"

\* 0.8 and 1.0, in hundredths
ConfidenceHeuristic == 80
ConfidenceDeclared == 100

confidenceOf(matchMethod) ==
  IF matchMethod = "HEURISTIC" THEN ConfidenceHeuristic ELSE ConfidenceDeclared

\* A row refers to its records by their position in the input lists (the
\* object references originalReference and extractedData): <<>> when absent.
buildResult(E, P, ei, pi, matchMethod) ==
  LET fields == buildFields(E[ei], P[pi])
  IN [invoiceNumber |-> E[ei].invoiceNumber,
      status |-> statusOf(fields),
      originalReference |-> <<ei>>,
      extractedData |-> <<pi>>,
      fields |-> fields,
      confidence |-> <<confidenceOf(matchMethod)>>]

missingInPdfRow(E, ei) ==
  [invoiceNumber |-> E[ei].invoiceNumber,
   status |-> "MISSING_IN_PDF",
   originalReference |-> <<ei>>,
   extractedData |-> <<>>,
   fields |-> << Field("totalAmount", "Expected Amount",
                       Num(E[ei].totalAmount), Undefined, FALSE),
                 Field("invoiceDate", "Expected Date",
                       Str(E[ei].invoiceDate), Undefined, FALSE) >>,
   confidence |-> <<>>]

missingInExcelRow(P, pi) ==
  [invoiceNumber |-> P[pi].invoiceNumber,
   status |-> "MISSING_IN_EXCEL",
   originalReference |-> <<>>,
   extractedData |-> <<pi>>,
   fields |-> << Field("totalAmount", "Invoice Amount",
                       Undefined, Num(P[pi].totalAmount), FALSE) >>,
   confidence |-> <<>>]

(***************************************************************************)
(* The matcher: one operator per forEach callback of compareInvoices.      *)
(* res is the results array (<<>> for null, <<row>> otherwise), matched    *)
(* the set matchedPdfIndices; each operator returns both after the         *)
(* callback ran for reference record i.                                    *)
(***************************************************************************)
Indices(P) == [k \in 1..Len(P) |-> k]

\* candidates without the test of the claimed set
candidatesAll(E, P, matched, i) ==
  LET Keep(idx) == isIdMatch(E[i].invoiceNumber, P[idx].invoiceNumber)
  IN SelectSeq(Indices(P), Keep)

\* candidates that looks only at the candidates from the position of the
\* reference record on
candidatesAfter(E, P, matched, i) ==
  LET Keep(idx) == /\ idx >= i
                   /\ idx \notin matched
                   /\ isIdMatch(E[i].invoiceNumber, P[idx].invoiceNumber)
  IN SelectSeq(Indices(P), Keep)

\* pdfData.map(...).filter(!matchedPdfIndices.has(idx) && isIdMatch(...)),
\* as the sequence of the candidate indices that pass the filter
candidates(E, P, matched, i) ==
  LET Keep(idx) == /\ idx \notin matched
                   /\ isIdMatch(E[i].invoiceNumber, P[idx].invoiceNumber)
  IN SelectSeq(Indices(P), Keep)


\* strictMatches without the comparison of the tax ids
strictMatchesAny(E, P, cands, i) == cands

\* candidates.find(gst equal), as the sequence of hits in order
strictMatches(E, P, cands, i) ==
  LET Hit(idx) == cleanString(E[i].gstNumber) = cleanString(P[idx].gstNumber)
  IN SelectSeq(cands, Hit)


\* amountMatches with exact equality for the tolerance
amountMatchesExact(E, P, cands, i) ==
  LET Hit(idx) == E[i].totalAmount = P[idx].totalAmount
  IN SelectSeq(cands, Hit)

\* candidates.find(total within tolerance), as the sequence of hits in order
amountMatches(E, P, cands, i) ==
  LET Hit(idx) == compareNumbers(E[i].totalAmount, P[idx].totalAmount)
  IN SelectSeq(cands, Hit)


\* heuristicHit without the comparison of the dates
heuristicHitAmountOnly(E, P, matched, i, idx) ==
  /\ idx \notin matched
  /\ compareNumbers(E[i].totalAmount, P[idx].totalAmount)

\* the callback of pdfData.findIndex in the heuristic pass
heuristicHit(E, P, matched, i, idx) ==
  /\ idx \notin matched
  /\ compareNumbers(E[i].totalAmount, P[idx].totalAmount)
  /\ normalizeDateForComparison(E[i].invoiceDate)
       = normalizeDateForComparison(P[idx].invoiceDate)

\* heuristicMatches that stops after the first candidate of the list
heuristicMatchesFirst(E, P, matched, i) ==
  LET Hit(idx) == idx = 1 /\ heuristicHit(E, P, matched, i, idx)
  IN SelectSeq(Indices(P), Hit)

heuristicMatches(E, P, matched, i) ==
  LET Hit(idx) == heuristicHit(E, P, matched, i, idx)
  IN SelectSeq(Indices(P), Hit)

\* what a callback leaves behind: the results array, the claimed set and the
\* two input lists, which no statement of compareInvoices writes to
claimed(E, P, res, matched, i, k, matchMethod) ==
  [results |-> [res EXCEPT ![i] = <<buildResult(E, P, i, k, matchMethod)>>],
   matched |-> matched \cup {k},
   excelData |-> E,
   pdfData |-> P]

\* claim that also copies the identifier of the reference record into the
\* claimed candidate record
claimOverwriting(E, P, res, matched, i, idx, matchMethod) ==
  [results |-> [res EXCEPT ![i] = <<buildResult(E, P, i, idx, matchMethod)>>],
   matched |-> matched \cup {idx},
   excelData |-> E,
   pdfData |-> [P EXCEPT ![idx].invoiceNumber = E[i].invoiceNumber]]

\* claimed for the index found: idx, the result of find or findIndex, is
\* computed once and then used as a value
claim(E, P, res, matched, i, idx, matchMethod) ==
  CHOOSE st \in {claimed(E, P, res, matched, i, k, matchMethod) : k \in {idx}} : TRUE

keep(E, P, res, matched) ==
  [results |-> res, matched |-> matched, excelData |-> E, pdfData |-> P]

\* pass1 with the last strict match for the first
pass1Last(E, P, res, matched, i) ==
  LET cands == candidates(E, P, matched, i)
      strict == strictMatches(E, P, cands, i)
  IN IF Len(cands) > 0 /\ E[i].gstNumber # <<>> /\ Len(strict) > 0
       THEN claim(E, P, res, matched, i, strict[Len(strict)], "STRICT_GST")
       ELSE keep(E, P, res, matched)

pass1(E, P, res, matched, i) ==
  LET cands == candidates(E, P, matched, i)
      strict == strictMatches(E, P, cands, i)
  IN IF Len(cands) > 0 /\ E[i].gstNumber # <<>> /\ Len(strict) > 0
       THEN claim(E, P, res, matched, i, strict[1], "STRICT_GST")
       ELSE keep(E, P, res, matched)

\* pass2 without the test of the slot
pass2Again(E, P, res, matched, i) ==
  LET cands == candidates(E, P, matched, i)
      best == amountMatches(E, P, cands, i)
  IN IF Len(cands) > 0
       THEN claim(E, P, res, matched, i,
                  IF Len(best) > 0 THEN best[1] ELSE cands[1], "ID_ONLY")
       ELSE keep(E, P, res, matched)

pass2(E, P, res, matched, i) ==
  IF res[i] # <<>> THEN keep(E, P, res, matched)
  ELSE LET cands == candidates(E, P, matched, i)
           best == amountMatches(E, P, cands, i)
       IN IF Len(cands) > 0
            THEN claim(E, P, res, matched, i,
                       IF Len(best) > 0 THEN best[1] ELSE cands[1], "ID_ONLY")
            ELSE keep(E, P, res, matched)

\* pass3 without the test of the slot
pass3Again(E, P, res, matched, i) ==
  LET hits == heuristicMatches(E, P, matched, i)
  IN IF Len(hits) > 0
       THEN claim(E, P, res, matched, i, hits[1], "HEURISTIC")
       ELSE keep(E, P, res, matched)

pass3(E, P, res, matched, i) ==
  IF res[i] # <<>> THEN keep(E, P, res, matched)
  ELSE LET hits == heuristicMatches(E, P, matched, i)
       IN IF Len(hits) > 0
            THEN claim(E, P, res, matched, i, hits[1], "HEURISTIC")
            ELSE keep(E, P, res, matched)


\* fillMissing with the test inverted
fillMissingInverted(E, res, i) ==
  IF res[i] # <<>> THEN [res EXCEPT ![i] = <<missingInPdfRow(E, i)>>] ELSE res

fillMissing(E, res, i) ==
  IF res[i] = <<>> THEN [res EXCEPT ![i] = <<missingInPdfRow(E, i)>>] ELSE res

\* results.filter(r => r !== null)
RECURSIVE nonNull(_)
nonNull(res) ==
  IF res = <<>> THEN <<>>
  ELSE (IF Head(res) = <<>> THEN <<>> ELSE <<Head(res)[1]>>) \o nonNull(Tail(res))


\* pushMissing that tests the claimed set the wrong way round
pushMissingClaimed(P, matched, final, idx) ==
  IF idx \in matched THEN Append(final, missingInExcelRow(P, idx)) ELSE final

\* pushMissing without the test of the claimed set
pushMissingAll(P, matched, final, idx) ==
  Append(final, missingInExcelRow(P, idx))

\* pushMissing that puts the row in front (unshift for push)
pushMissingFront(P, matched, final, idx) ==
  IF idx \notin matched THEN <<missingInExcelRow(P, idx)>> \o final ELSE final

pushMissing(P, matched, final, idx) ==
  IF idx \notin matched THEN Append(final, missingInExcelRow(P, idx)) ELSE final

(***************************************************************************)
(* compareInvoices as a function of its two arguments: the loops run one   *)
(* after the other, each from the first element to the last.               *)
(***************************************************************************)
passCallback(k, E, P, res, matched, i) ==
  CASE k = 1 -> pass1(E, P, res, matched, i)
    [] k = 2 -> pass2(E, P, res, matched, i)
    [] k = 3 -> pass3(E, P, res, matched, i)

RECURSIVE forEachPass(_, _, _, _, _, _)
forEachPass(k, E, P, res, matched, i) ==
  IF i > Len(E) THEN keep(E, P, res, matched)
  ELSE LET st == passCallback(k, E, P, res, matched, i)
       IN forEachPass(k, st.excelData, st.pdfData, st.results, st.matched, i + 1)

RECURSIVE forEachFill(_, _, _)
forEachFill(E, res, i) ==
  IF i > Len(E) THEN res ELSE forEachFill(E, fillMissing(E, res, i), i + 1)

RECURSIVE forEachPush(_, _, _, _)
forEachPush(P, matched, final, idx) ==
  IF idx > Len(P) THEN final
  ELSE forEachPush(P, matched, pushMissing(P, matched, final, idx), idx + 1)

compareInvoices(E, P) ==
  LET s1 == forEachPass(1, E, P, [k \in 1..Len(E) |-> <<>>], {}, 1)
      s2 == forEachPass(2, s1.excelData, s1.pdfData, s1.results, s1.matched, 1)
      s3 == forEachPass(3, s2.excelData, s2.pdfData, s2.results, s2.matched, 1)
  IN forEachPush(s3.pdfData, s3.matched,
                 nonNull(forEachFill(s3.excelData, s3.results, 1)), 1)

(***************************************************************************)
(* Input records.  Reference records come from the spreadsheet, candidate  *)
(* records from the recognition service; both are InvoiceData.             *)
(***************************************************************************)
Inv(id, gst, name, date, taxable, cgst, sgst, igst, total) ==
  [invoiceNumber |-> id, gstNumber |-> gst, vendorName |-> name,
   invoiceDate |-> date, taxableAmount |-> taxable, cgstAmount |-> cgst,
   sgstAmount |-> sgst, igstAmount |-> igst, totalAmount |-> total]

Ref1 ==
  Inv(<<"1", "0", "0">>,
      <<"T", "1">>,
      <<"A", "c", "m", "e">>,
      <<"0", "1", "-", "0", "2", "-", "2", "0", "2", "4">>,
      9000, <<500>>, <<500>>, <<>>, 10000)

Ref2 ==
  Inv(<<"1", "0", "0">>,
      <<"T", "2">>,
      <<"Z", "e", "d">>,
      <<"0", "1", "-", "0", "2", "-", "2", "0", "2", "4">>,
      24000, <<>>, <<>>, <<1000>>, 25000)

Ref3 ==
  Inv(<<"0", "1", "0", "0">>,
      <<>>,
      <<"A", "c", "m", "e">>,
      <<"1", "/", "2", "/", "2", "0", "2", "4">>,
      9000, <<500>>, <<500>>, <<>>, 10050)

Ref4 ==
  Inv(<<"I", "N", "V", "-", "0", "0", "1">>,
      <<"T", "1">>,
      <<"A", "c", "m", "e">>,
      <<"0", "1", "-", "0", "2", "-", "2", "0", "2", "4">>,
      9000, <<500>>, <<500>>, <<0>>, 10000)

Ref5 ==
  Inv(<<"7">>,
      <<"T", "3">>,
      <<"Y", "o">>,
      <<"N", "/", "A">>,
      400, <<>>, <<>>, <<>>, 500)

Cand1 ==
  Inv(<<"1", "0", "0">>,
      <<"T", "1">>,
      <<"A", "C", "M", "E", " ", "L", "t", "d">>,
      <<"2", "0", "2", "4", "-", "0", "2", "-", "0", "1">>,
      9000, <<500>>, <<500>>, <<0>>, 10000)

Cand2 ==
  Inv(<<"1", "0", "0">>,
      <<"t", "-", "2">>,
      <<"Z", "e", "d">>,
      <<"2", "0", "2", "4", "-", "0", "2", "-", "0", "1">>,
      24000, <<0>>, <<0>>, <<1000>>, 25000)

Cand3 ==
  Inv(<<"0", "0", "1">>,
      <<"T", "1">>,
      <<"A", "c", "m", "e">>,
      <<"2", "0", "2", "4", "-", "2", "-", "1">>,
      9000, <<500>>, <<500>>, <<>>, 10000)

Cand4 ==
  Inv(<<"A", "-", "1", "0", "0">>,
      <<"T", "9">>,
      <<"A", "c", "m", "e">>,
      <<"2", "/", "2", "/", "2", "0", "2", "4">>,
      9000, <<500>>, <<500>>, <<>>, 10100)

Cand5 ==
  Inv(<<"X", "1">>,
      <<"T", "3">>,
      <<"Y", "o">>,
      <<"N", "/", "A">>,
      400, <<>>, <<>>, <<>>, 550)

ExcelPool == {Ref1, Ref2, Ref3, Ref4, Ref5}
PdfPool == {Cand1, Cand2, Cand3, Cand4, Cand5}

SeqsUpTo(S, n) == UNION {[1..k -> S] : k \in 0..n}

(***************************************************************************)
(* compareInvoices as a state machine: one step per forEach callback.      *)
(***************************************************************************)
IdIdle == /\ id1 = <<>>
          /\ id2 = <<>>
          /\ idRet = <<>>

\* no helper function is called on its own
NoCall == /\ callArgs = <<>>
          /\ callRet = <<>>

\* both arguments of compareInvoices are lists, and nothing was thrown
NoNulls == /\ nullInputs = {}
           /\ thrown = "none"

\* no invocation runs beside this one
Alone == calls = <<>>

\* the App component is not mounted, and processMatcher has computed nothing
NoApp ==
  /\ newStats = <<>>
  /\ app = <<>>
  /\ runs = <<>>
  /\ storage = <<>>
  /\ clock = 0

\* compareInvoices is not running
MainIdle ==
  /\ excelData = <<>>
  /\ pdfData = <<>>
  /\ results = <<>>
  /\ matchedPdfIndices = {}
  /\ finalResults = <<>>
  /\ pc = "idle"
  /\ index = 1

\* The names of the two parameters.  A caller outside the type checker can
\* pass null or undefined for either; nullInputs names the parameters it did
\* so for, and the variable of such a parameter holds no list (it stays <<>>
\* and is never read as one).
ParamNames == {"excelData", "pdfData"}

Init ==
  /\ nullInputs \in SUBSET ParamNames
  /\ excelData \in (IF "excelData" \in nullInputs THEN {<<>>} ELSE SeqsUpTo(ExcelPool, MaxExcel))
  /\ pdfData \in (IF "pdfData" \in nullInputs THEN {<<>>} ELSE SeqsUpTo(PdfPool, MaxPdf))
  /\ results = [k \in 1..Len(excelData) |-> <<>>]
  /\ matchedPdfIndices = {}
  /\ finalResults = <<>>
  /\ pc = "pass1"
  /\ index = 1
  /\ thrown = "none"
  /\ IdIdle
  /\ NoCall
  /\ Alone
  /\ NoApp

\* the parameters the statement at hand reads a property of: excelData.forEach
\* for the four loops over excelData, pdfData.findIndex inside the callbacks of
\* the three passes, pdfData.forEach for the last loop
dereferenced ==
  CASE pc \in {"pass1", "pass2", "pass3"} ->
         {"excelData"} \cup (IF index <= Len(excelData) THEN {"pdfData"} ELSE {})
    [] pc = "fill" -> {"excelData"}
    [] pc = "push" -> {"pdfData"}
    [] OTHER -> {}

throwsNever(nulls, touched) == FALSE

\* reading a property of null or undefined throws a TypeError; no statement of
\* compareInvoices tests its parameters before using them
throws(nulls, touched) == (nulls \cap touched) # {}

\* the call is under way and its next statement does not throw
Running ==
  /\ thrown = "none"
  /\ ~throws(nullInputs, dereferenced)

\* the exception leaves compareInvoices: nothing is returned
ThrowTypeError ==
  /\ thrown = "none"
  /\ throws(nullInputs, dereferenced)
  /\ thrown' = "TypeError"
  /\ UNCHANGED <<excelData, pdfData, results, matchedPdfIndices, finalResults, pc, index>>
  /\ UNCHANGED <<id1, id2, idRet, callArgs, callRet, nullInputs, calls>>
  /\ UNCHANGED <<newStats, appVars>>

Install(st) ==
  /\ results' = st.results
  /\ matchedPdfIndices' = st.matched
  /\ excelData' = st.excelData
  /\ pdfData' = st.pdfData

Pass1Step ==
  /\ Running
  /\ pc = "pass1"
  /\ index <= Len(excelData)
  /\ Install(pass1(excelData, pdfData, results, matchedPdfIndices, index))
  /\ index' = index + 1
  /\ UNCHANGED <<finalResults, pc, others>>

Pass2Step ==
  /\ Running
  /\ pc = "pass2"
  /\ index <= Len(excelData)
  /\ Install(pass2(excelData, pdfData, results, matchedPdfIndices, index))
  /\ index' = index + 1
  /\ UNCHANGED <<finalResults, pc, others>>

Pass3Step ==
  /\ Running
  /\ pc = "pass3"
  /\ index <= Len(excelData)
  /\ Install(pass3(excelData, pdfData, results, matchedPdfIndices, index))
  /\ index' = index + 1
  /\ UNCHANGED <<finalResults, pc, others>>

FillStep ==
  /\ Running
  /\ pc = "fill"
  /\ index <= Len(excelData)
  /\ results' = fillMissing(excelData, results, index)
  /\ index' = index + 1
  /\ UNCHANGED <<excelData, pdfData, matchedPdfIndices, finalResults, pc, others>>

\* nextLoop that starts over with pass 1 after the MISSING_IN_PDF loop
nextLoopBack(p) ==
  CASE p = "pass1" -> "pass2"
    [] p = "pass2" -> "pass3"
    [] p = "pass3" -> "fill"
    [] p = "fill" -> "pass1"

nextLoop(p) ==
  CASE p = "pass1" -> "pass2"
    [] p = "pass2" -> "pass3"
    [] p = "pass3" -> "fill"
    [] p = "fill" -> "filter"

\* a forEach over excelData has run out of elements
EndLoop ==
  /\ Running
  /\ pc \in {"pass1", "pass2", "pass3", "fill"}
  /\ index > Len(excelData)
  /\ pc' = nextLoop(pc)
  /\ index' = 1
  /\ UNCHANGED <<excelData, pdfData, results, matchedPdfIndices, finalResults, others>>

FilterResults ==
  /\ Running
  /\ pc = "filter"
  /\ finalResults' = nonNull(results)
  /\ pc' = "push"
  /\ index' = 1
  /\ UNCHANGED <<excelData, pdfData, results, matchedPdfIndices, others>>

PushStep ==
  /\ Running
  /\ pc = "push"
  /\ index <= Len(pdfData)
  /\ finalResults' = pushMissing(pdfData, matchedPdfIndices, finalResults, index)
  /\ index' = index + 1
  /\ UNCHANGED <<excelData, pdfData, results, matchedPdfIndices, pc, others>>

Return ==
  /\ Running
  /\ pc = "push"
  /\ index > Len(pdfData)
  /\ pc' = "done"
  /\ UNCHANGED <<excelData, pdfData, results, matchedPdfIndices, finalResults, index, others>>

\* comparisonResults.filter(r => r.status === ...).length
countOf(comparisonResults, statuses) ==
  Cardinality({k \in 1..Len(comparisonResults) : comparisonResults[k].status \in statuses})

\* ProcessingStats with the MISSING_IN_PDF rows alone counted as missing
ProcessingStatsPdfOnly(E, P, comparisonResults) ==
  [totalExcel |-> Len(E),
   totalPdf |-> Len(P),
   matched |-> countOf(comparisonResults, {"MATCH"}),
   mismatches |-> countOf(comparisonResults, {"MISMATCH"}),
   missing |-> countOf(comparisonResults, {"MISSING_IN_PDF"})]

\* the object literal newStats of processMatcher
ProcessingStats(E, P, comparisonResults) ==
  [totalExcel |-> Len(E),
   totalPdf |-> Len(P),
   matched |-> countOf(comparisonResults, {"MATCH"}),
   mismatches |-> countOf(comparisonResults, {"MISMATCH"}),
   missing |-> countOf(comparisonResults, {"MISSING_IN_PDF", "MISSING_IN_EXCEL"})]

\* processMatcher, from the return of compareInvoices to the const newStats;
\* it has thrown before the call if the Excel list is empty
NewStats ==
  /\ Running
  /\ pc = "done"
  /\ Len(excelData) # 0
  /\ newStats = <<>>
  /\ newStats' = <<ProcessingStats(excelData, pdfData, finalResults)>>
  /\ UNCHANGED <<excelData, pdfData, results, matchedPdfIndices, finalResults, pc, index>>
  /\ UNCHANGED <<id1, id2, idRet, callArgs, callRet, nullInputs, thrown, calls, appVars>>

Next ==
  \/ Pass1Step
  \/ Pass2Step
  \/ Pass3Step
  \/ FillStep
  \/ EndLoop
  \/ FilterResults
  \/ PushStep
  \/ Return
  \/ ThrowTypeError
  \/ NewStats

Spec == Init /\ [][Next]_vars

(***************************************************************************)
(* compareInvoices on lists of records with malformed fields: records      *)
(* whose strings are all empty and whose amounts are zero, records with a  *)
(* date that is no date, and a candidate that has an identifier and a      *)
(* total but nothing else.  Both arguments are lists.                      *)
(* The function is synchronous: once called it keeps taking steps, which   *)
(* is the weak fairness of its steps.                                      *)
(***************************************************************************)
RefBlank == Inv(<<>>, <<>>, <<>>, <<>>, 0, <<>>, <<>>, <<>>, 0)
CandBlank == Inv(<<>>, <<>>, <<>>, <<>>, 0, <<>>, <<>>, <<>>, 0)

CandUndated == Inv(<<"X", "1">>, <<>>, <<>>, <<>>, 900, <<>>, <<>>, <<>>, 900)

MalformedExcelPool == {RefBlank, Ref5}
MalformedPdfPool == {CandBlank, Cand5, CandUndated}

InitMalformed ==
  /\ excelData \in SeqsUpTo(MalformedExcelPool, MaxExcel)
  /\ pdfData \in SeqsUpTo(MalformedPdfPool, MaxPdf)
  /\ results = [k \in 1..Len(excelData) |-> <<>>]
  /\ matchedPdfIndices = {}
  /\ finalResults = <<>>
  /\ pc = "pass1"
  /\ index = 1
  /\ IdIdle
  /\ NoCall
  /\ NoNulls
  /\ Alone
  /\ NoApp

NextValid ==
  \/ Pass1Step
  \/ Pass2Step
  \/ Pass3Step
  \/ FillStep
  \/ EndLoop
  \/ FilterResults
  \/ PushStep
  \/ Return

SpecMalformed == InitMalformed /\ [][NextValid]_vars /\ WF_vars(NextValid)

(***************************************************************************)
(* isIdMatch on its own: the two identifiers are drawn from all strings up *)
(* to MaxIdLen over a few characters (digits with a leading zero, a letter *)
(* that is lower-cased, a separator that is stripped); idRet holds         *)
(* <<isIdMatch(id1, id2), isIdMatch(id2, id1)>> once it was called.        *)
(***************************************************************************)
IdAlphabet == {"0", "1", "A", "-"}
IdAlphabetNarrow == {"0", "1", "A"}

InitIdMatch ==
  /\ id1 \in SeqsUpTo(IdAlphabet, MaxIdLen)
  /\ id2 \in SeqsUpTo(IdAlphabetNarrow, MaxIdLen)
  /\ idRet = <<>>
  /\ MainIdle
  /\ NoCall
  /\ NoNulls
  /\ Alone
  /\ NoApp

CallIsIdMatch ==
  /\ pc = "idle"
  /\ idRet = <<>>
  /\ idRet' = <<isIdMatch(id1, id2), isIdMatch(id2, id1)>>
  /\ UNCHANGED <<excelData, pdfData, results, matchedPdfIndices, finalResults, pc, index,
                 id1, id2, callArgs, callRet, nullInputs, thrown, calls>>
  /\ UNCHANGED <<newStats, appVars>>

NextIdMatch == CallIsIdMatch

SpecIdMatch == InitIdMatch /\ [][NextIdMatch]_vars

(***************************************************************************)
(* formatDateToDisplay on its own.  The date strings are all texts up to   *)
(* MaxDateLen over a few characters (digits, both separators, a blank, a   *)
(* letter), the spellings of a few calendar dates, and the placeholder     *)
(* 'Unknown', each also with blanks around it; callRet holds               *)
(* <<formatDateToDisplay(x), formatDateToDisplay(formatDateToDisplay(x))>> *)
(* once it was called.                                                     *)
(***************************************************************************)
MaxDateLen == 4

DateAlphabet == {"1", "2", "-", "/", " ", "A"}

Days == {7, 12}
Months == {3, 11}
Years == {2024}

twoDigits(n) == <<DigitChars[(n \div 10) + 1], DigitChars[(n % 10) + 1]>>

\* a day or a month as text, without and with the leading zero
dayMonthTexts(n) == {digitsOf(n), twoDigits(n)}

Slash == <<"/">>

\* YYYY-MM-DD, DD-MM-YYYY and DD/MM/YYYY, day and month padded or not
spellings(d, m, y) ==
  UNION {{digitsOf(y) \o Dash \o mt \o Dash \o dt,
          dt \o Dash \o mt \o Dash \o digitsOf(y),
          dt \o Slash \o mt \o Slash \o digitsOf(y)} :
            dt \in dayMonthTexts(d), mt \in dayMonthTexts(m)}

SpelledDates == UNION {spellings(d, m, y) : d \in Days, m \in Months, y \in Years}

Blanks == {<<>>, <<" ">>}

padded(S) == {l \o t \o r : l \in Blanks, t \in S, r \in Blanks}

DateInputs ==
  SeqsUpTo(DateAlphabet, MaxDateLen) \cup padded(SpelledDates \cup {Unknown, <<"N", "/", "A">>})

InitDate ==
  /\ callArgs \in {<<x>> : x \in DateInputs}
  /\ callRet = <<>>
  /\ MainIdle
  /\ IdIdle
  /\ NoNulls
  /\ Alone
  /\ NoApp

CallFormatDate ==
  /\ pc = "idle"
  /\ callRet = <<>>
  /\ callRet' = <<formatDateToDisplay(callArgs[1]),
                  formatDateToDisplay(formatDateToDisplay(callArgs[1]))>>
  /\ UNCHANGED <<excelData, pdfData, results, matchedPdfIndices, finalResults, pc, index>>
  /\ UNCHANGED <<id1, id2, idRet, callArgs, nullInputs, thrown, calls>>
  /\ UNCHANGED <<newStats, appVars>>

NextDate == CallFormatDate

SpecDate == InitDate /\ [][NextDate]_vars

(***************************************************************************)
(* normalizeInvoiceId on its own.  The identifiers are all strings up to   *)
(* MaxIdLen over IdAlphabet and the digit strings of 10^21, the first      *)
(* integer that toString does not write in full, with and without a        *)
(* leading zero (powers of ten of this size are exact as doubles); callRet *)
(* holds the normalized forms of x, of the normalized form of x and of x   *)
(* with one more leading zero, once the function was called.               *)
(***************************************************************************)
TenTo21 == <<"1">> \o [k \in 1..MaxPlainDigits |-> "0"]

LongIds == {TenTo21, <<"0">> \o TenTo21}

IdInputs == SeqsUpTo(IdAlphabet, MaxIdLen) \cup LongIds

InitNormalizeId ==
  /\ callArgs \in {<<x>> : x \in IdInputs}
  /\ callRet = <<>>
  /\ MainIdle
  /\ IdIdle
  /\ NoNulls
  /\ Alone
  /\ NoApp

CallNormalizeInvoiceId ==
  /\ pc = "idle"
  /\ callRet = <<>>
  /\ callRet' = <<normalizeInvoiceId(callArgs[1]),
                  normalizeInvoiceId(normalizeInvoiceId(callArgs[1])),
                  normalizeInvoiceId(<<"0">> \o callArgs[1])>>
  /\ UNCHANGED <<excelData, pdfData, results, matchedPdfIndices, finalResults, pc, index>>
  /\ UNCHANGED <<id1, id2, idRet, callArgs, nullInputs, thrown, calls>>
  /\ UNCHANGED <<newStats, appVars>>

NextNormalizeId == CallNormalizeInvoiceId

SpecNormalizeId == InitNormalizeId /\ [][NextNormalizeId]_vars

(***************************************************************************)
(* compareNumbers and its callers on their own.  The two amounts are drawn *)
(* from 0..MaxAmount hundredths, which holds differences below, at and     *)
(* above the tolerance; callRet holds what compareNumbers says of them in  *)
(* either order, the flags of the five amount fields of a pair of records  *)
(* carrying the two amounts, and whether pass 2 and pass 3 take the second *)
(* record for the first on its amount.                                     *)
(***************************************************************************)
MaxAmount == 101

\* a record all of whose amounts are n
amountRecord(n) ==
  Inv(<<"1">>, <<"T">>, <<"V">>, <<"0", "1", "-", "0", "2", "-", "2", "0", "2", "4">>,
      n, <<n>>, <<n>>, <<n>>, n)

AmountFieldNames == {"taxableAmount", "cgstAmount", "sgstAmount", "igstAmount", "totalAmount"}

\* the isMatch flags of the amount fields, in the order of the fields
amountFlags(fields) ==
  LET IsAmount(f) == f.fieldName \in AmountFieldNames
      amounts == SelectSeq(fields, IsAmount)
  IN [k \in 1..Len(amounts) |-> amounts[k].isMatch]

InitCompareNumbers ==
  /\ callArgs \in {<<num1, num2>> : num1 \in 0..MaxAmount, num2 \in 0..MaxAmount}
  /\ callRet = <<>>
  /\ MainIdle
  /\ IdIdle
  /\ NoNulls
  /\ Alone
  /\ NoApp

CallCompareNumbers ==
  /\ pc = "idle"
  /\ callRet = <<>>
  /\ LET E == <<amountRecord(callArgs[1])>>
         P == <<amountRecord(callArgs[2])>>
     IN callRet' = <<[direct |-> compareNumbers(callArgs[1], callArgs[2]),
                      swapped |-> compareNumbers(callArgs[2], callArgs[1]),
                      fields |-> amountFlags(buildFields(E[1], P[1])),
                      pass2 |-> Len(amountMatches(E, P, <<1>>, 1)) > 0,
                      pass3 |-> heuristicHit(E, P, {}, 1, 1)]>>
  /\ UNCHANGED <<excelData, pdfData, results, matchedPdfIndices, finalResults, pc, index>>
  /\ UNCHANGED <<id1, id2, idRet, callArgs, nullInputs, thrown, calls>>
  /\ UNCHANGED <<newStats, appVars>>

NextCompareNumbers == CallCompareNumbers

SpecCompareNumbers == InitCompareNumbers /\ [][NextCompareNumbers]_vars

(***************************************************************************)
(* Two invocations of compareInvoices side by side, their steps taken in   *)
(* any order.  Each invocation is a record of its arguments and locals;    *)
(* calls holds the two of them.  The lists have up to MaxInterleaved       *)
(* records.                                                                *)
(***************************************************************************)
MaxInterleaved == 1

InterleavedExcelPool == {Ref1, Ref5}
InterleavedPdfPool == {Cand1}

invocation(E, P) ==
  [excelData |-> E, pdfData |-> P,
   results |-> [k \in 1..Len(E) |-> <<>>],
   matched |-> {},
   finalResults |-> <<>>,
   pc |-> "pass1",
   index |-> 1]

Invocations ==
  {invocation(E, P) : E \in SeqsUpTo(InterleavedExcelPool, MaxInterleaved),
                      P \in SeqsUpTo(InterleavedPdfPool, MaxInterleaved)}

passNumber(p) ==
  CASE p = "pass1" -> 1
    [] p = "pass2" -> 2
    [] p = "pass3" -> 3

\* matchedPdfIndices kept outside the function, one set for all invocations
sharedClaims(own, foreign) == own \cup foreign

\* the claimed set an invocation works with: the Set it created on entry
ownClaims(own, foreign) == own

\* the next step of invocation c; foreign is what the other invocation has
\* claimed
stepInvocation(c, foreign) ==
  LET matched == ownClaims(c.matched, foreign)
  IN CASE c.pc \in {"pass1", "pass2", "pass3"} /\ c.index <= Len(c.excelData) ->
            LET st == passCallback(passNumber(c.pc), c.excelData, c.pdfData,
                                   c.results, matched, c.index)
            IN [c EXCEPT !.excelData = st.excelData, !.pdfData = st.pdfData,
                         !.results = st.results, !.matched = st.matched,
                         !.index = @ + 1]
       [] c.pc = "fill" /\ c.index <= Len(c.excelData) ->
            [c EXCEPT !.results = fillMissing(c.excelData, c.results, c.index),
                      !.index = @ + 1]
       [] c.pc \in {"pass1", "pass2", "pass3", "fill"} /\ c.index > Len(c.excelData) ->
            [c EXCEPT !.pc = nextLoop(@), !.index = 1]
       [] c.pc = "filter" ->
            [c EXCEPT !.finalResults = nonNull(c.results), !.pc = "push", !.index = 1]
       [] c.pc = "push" /\ c.index <= Len(c.pdfData) ->
            [c EXCEPT !.finalResults = pushMissing(c.pdfData, matched, @, c.index),
                      !.index = @ + 1]
       [] c.pc = "push" /\ c.index > Len(c.pdfData) ->
            [c EXCEPT !.pc = "done"]

InitInterleaved ==
  /\ calls \in [1..2 -> Invocations]
  /\ NoApp
  /\ MainIdle
  /\ IdIdle
  /\ NoCall
  /\ NoNulls

StepCall(k) ==
  /\ calls[k].pc # "done"
  /\ calls' = [calls EXCEPT ![k] = stepInvocation(calls[k], calls[3 - k].matched)]
  /\ UNCHANGED <<excelData, pdfData, results, matchedPdfIndices, finalResults, pc, index>>
  /\ UNCHANGED <<id1, id2, idRet, callArgs, callRet, nullInputs, thrown>>
  /\ UNCHANGED <<newStats, appVars>>

NextInterleaved == \E k \in 1..2 : StepCall(k)

SpecInterleaved == InitInterleaved /\ [][NextInterleaved]_vars

(***************************************************************************)
(* Vocabulary of the properties.                                           *)
(***************************************************************************)
RefIndices == 1..Len(excelData)
CandIndices == 1..Len(pdfData)

IsPairStatus(st) == st \in {"MATCH", "MISMATCH"}

\* the reference records whose slot holds a matched pair
ResolvedRefs == {i \in RefIndices : results[i] # <<>> /\ IsPairStatus(results[i][1].status)}

CandOf(i) == results[i][1].extractedData[1]

RowsOfRef(i) == {k \in 1..Len(finalResults) : finalResults[k].originalReference = <<i>>}
RowsOfCand(c) == {k \in 1..Len(finalResults) : finalResults[k].extractedData = <<c>>}

PairRows == {k \in 1..Len(finalResults) : IsPairStatus(finalResults[k].status)}

Min(S) == CHOOSE x \in S : \A y \in S : x <= y

\* C1: when compareInvoices has returned, every reference record (by index) is
\* the reference side of exactly one output row, and that row is either a
\* matched row (MATCH or MISMATCH) or a MISSING_IN_PDF row.
C1_RefInExactlyOneRow ==
  pc = "done" =>
    \A i \in RefIndices :
      /\ Cardinality(RowsOfRef(i)) = 1
      /\ \A k \in RowsOfRef(i) :
           /\ finalResults[k].status \in {"MATCH", "MISMATCH", "MISSING_IN_PDF"}
           /\ (finalResults[k].status = "MISSING_IN_PDF") = (finalResults[k].extractedData = <<>>)

C1_Witness ==
  /\ pc = "done"
  /\ Len(excelData) = 2
  /\ \E k \in RowsOfRef(1) : finalResults[k].status = "MISSING_IN_PDF"
  /\ \E k \in RowsOfRef(2) : IsPairStatus(finalResults[k].status)

\* C2: when compareInvoices has returned, every candidate record (by index) is
\* the candidate side of exactly one output row, and that row is either a
\* matched row (MATCH or MISMATCH) or a MISSING_IN_EXCEL row.
C2_CandInExactlyOneRow ==
  pc = "done" =>
    \A c \in CandIndices :
      /\ Cardinality(RowsOfCand(c)) = 1
      /\ \A k \in RowsOfCand(c) :
           /\ finalResults[k].status \in {"MATCH", "MISMATCH", "MISSING_IN_EXCEL"}
           /\ (finalResults[k].status = "MISSING_IN_EXCEL") = (finalResults[k].originalReference = <<>>)

C2_Witness ==
  /\ pc = "done"
  /\ Len(pdfData) = 2
  /\ \E k \in RowsOfCand(1) : finalResults[k].status = "MISSING_IN_EXCEL"
  /\ \E k \in RowsOfCand(2) : IsPairStatus(finalResults[k].status)

\* C3: in every state of a run, the resolved slots hold pairwise distinct
\* candidate indices and matchedPdfIndices is exactly the set of the candidate
\* indices held by resolved slots.
C3_NoDoubleClaim ==
  /\ \A i, j \in ResolvedRefs : i # j => CandOf(i) # CandOf(j)
  /\ matchedPdfIndices = {CandOf(i) : i \in ResolvedRefs}

C3_Witness ==
  /\ pc = "pass3"
  /\ Cardinality(ResolvedRefs) = 2
  /\ excelData[1].invoiceNumber = excelData[2].invoiceNumber
  /\ Len(pdfData) = 2
  /\ pdfData[1].invoiceNumber = pdfData[2].invoiceNumber

\* C4: the number of rows returned equals |reference| + |candidate| minus the
\* number of matched pairs (rows with status MATCH or MISMATCH).
C4_RowCount ==
  pc = "done" =>
    Len(finalResults) = Len(excelData) + Len(pdfData) - Cardinality(PairRows)

C4_Witness ==
  /\ pc = "done"
  /\ Cardinality(PairRows) = 1
  /\ Len(finalResults) = 3

\* C5: the output lists one row per reference record in reference input order
\* (matched or MISSING_IN_PDF), then the MISSING_IN_EXCEL rows in candidate
\* input order; no MISSING_IN_EXCEL row precedes a reference-derived row.
C5_OutputOrder ==
  pc = "done" =>
    /\ Len(finalResults) >= Len(excelData)
    /\ \A k \in 1..Len(finalResults) :
         IF k <= Len(excelData)
           THEN /\ finalResults[k].originalReference = <<k>>
                /\ finalResults[k].status \in {"MATCH", "MISMATCH", "MISSING_IN_PDF"}
           ELSE /\ finalResults[k].status = "MISSING_IN_EXCEL"
                /\ finalResults[k].originalReference = <<>>
    /\ \A k, l \in (Len(excelData) + 1)..Len(finalResults) :
         k < l => finalResults[k].extractedData[1] < finalResults[l].extractedData[1]

C5_Witness ==
  /\ pc = "done"
  /\ Len(excelData) = 2
  /\ Len(finalResults) = 3
  /\ finalResults[1].status = "MISSING_IN_PDF"
  /\ finalResults[2].confidence = <<ConfidenceHeuristic>>
  /\ finalResults[2].extractedData = <<2>>
  /\ finalResults[3].extractedData = <<1>>

\* the unclaimed candidates whose identifier matches that of reference i
IdEligible(i) ==
  {c \in CandIndices :
     /\ c \notin matchedPdfIndices
     /\ isIdMatch(excelData[i].invoiceNumber, pdfData[c].invoiceNumber)}

SameTaxId(i, c) == cleanString(excelData[i].gstNumber) = cleanString(pdfData[c].gstNumber)

StrictEligible(i) == {c \in IdEligible(i) : SameTaxId(i, c)}

TotalWithinTolerance(i, c) ==
  Abs(excelData[i].totalAmount - pdfData[c].totalAmount) <= Epsilon

SameNormalizedDate(i, c) ==
  normalizeDateForComparison(excelData[i].invoiceDate)
    = normalizeDateForComparison(pdfData[c].invoiceDate)

HeuristicEligible(i) ==
  {c \in CandIndices :
     /\ c \notin matchedPdfIndices
     /\ TotalWithinTolerance(i, c)
     /\ SameNormalizedDate(i, c)}

\* the callback of the running forEach is about to run for reference record index
AtTurn(pass) == pc = pass /\ index <= Len(excelData)

\* the step resolves reference record index to candidate c and claims c
ResolvesTo(c) ==
  /\ results'[index] # <<>>
  /\ IsPairStatus(results'[index][1].status)
  /\ results'[index][1].originalReference = <<index>>
  /\ results'[index][1].extractedData = <<c>>
  /\ matchedPdfIndices' = matchedPdfIndices \cup {c}

LeavesUnresolved ==
  /\ results'[index] = <<>>
  /\ matchedPdfIndices' = matchedPdfIndices

\* two reference records and two candidates all share one identifier, the
\* reference tax ids differ and the candidates carry the same two tax ids
SharedIdScenario ==
  /\ Len(excelData) = 2
  /\ Len(pdfData) = 2
  /\ excelData[1].invoiceNumber = excelData[2].invoiceNumber
  /\ \A c \in 1..2 : pdfData[c].invoiceNumber = excelData[1].invoiceNumber
  /\ excelData[1].gstNumber # <<>>
  /\ excelData[2].gstNumber # <<>>
  /\ ~SameTaxId(1, 1) \/ ~SameTaxId(2, 1)
  /\ \A i \in 1..2 : \E c \in 1..2 : SameTaxId(i, c)
  /\ \A c \in 1..2 : \E i \in 1..2 : SameTaxId(i, c)

C6_Pass1Turn ==
  AtTurn("pass1") =>
    IF excelData[index].gstNumber # <<>> /\ StrictEligible(index) # {}
      THEN \E c \in StrictEligible(index) : ResolvesTo(c)
      ELSE LeavesUnresolved

C6_Scenario ==
  SharedIdScenario =>
    /\ pc # "pass1" =>
         /\ ResolvedRefs = {1, 2}
         /\ \A i \in 1..2 : SameTaxId(i, CandOf(i))
    /\ pc = "done" =>
         /\ Len(finalResults) = 2
         /\ \A k \in 1..2 : IsPairStatus(finalResults[k].status)

\* C6: in pass 1 a reference record with a non-empty tax id is resolved to an
\* unclaimed candidate whose identifier matches and whose normalized tax id
\* equals its own whenever one exists, and to no other candidate; a reference
\* record with an empty tax id is never resolved in pass 1.  When two reference
\* records and two candidates share one identifier with tax ids T1/T2, in either
\* order, both pairs are linked by tax id and no MISSING_* row is produced.
C6_Pass1ByTaxId == [][C6_Pass1Turn]_vars /\ []C6_Scenario

C6_Witness ==
  /\ SharedIdScenario
  /\ pc = "done"
  /\ finalResults[1].extractedData = <<2>>
  /\ finalResults[2].extractedData = <<1>>

\* C7: in pass 2 a reference record still unresolved, with at least one unclaimed
\* candidate matching its identifier, is resolved to the first such candidate
\* whose total is within tolerance of its own, or, when none is, to the first
\* identifier-matching unclaimed candidate.
C7_Pass2Turn ==
  (AtTurn("pass2") /\ results[index] = <<>> /\ IdEligible(index) # {}) =>
    LET within == {c \in IdEligible(index) : TotalWithinTolerance(index, c)}
    IN ResolvesTo(IF within # {} THEN Min(within) ELSE Min(IdEligible(index)))

C7_Pass2FirstWithinTolerance == [][C7_Pass2Turn]_vars

C7_Witness ==
  /\ pc = "pass3"
  /\ \E i \in ResolvedRefs :
       /\ excelData[i].gstNumber = <<>>
       /\ CandOf(i) = 2
       /\ 1 \notin matchedPdfIndices
       /\ isIdMatch(excelData[i].invoiceNumber, pdfData[1].invoiceNumber)
       /\ ~TotalWithinTolerance(i, 1)

\* C8: in pass 3 a reference record unresolved after passes 1 and 2 is resolved
\* to the first unclaimed candidate whose total is within tolerance and whose
\* normalized date equals its own (and stays unresolved when there is none); a
\* pair made by pass 3 carries confidence 0.8, one made by pass 1 or 2 carries 1.0.
C8_Pass3Turn ==
  (AtTurn("pass3") /\ results[index] = <<>>) =>
    IF HeuristicEligible(index) # {}
      THEN /\ ResolvesTo(Min(HeuristicEligible(index)))
           /\ results'[index][1].confidence = <<ConfidenceHeuristic>>
      ELSE LeavesUnresolved

C8_DeclaredTurn ==
  ((AtTurn("pass1") \/ AtTurn("pass2")) /\ results[index] = <<>> /\ results'[index] # <<>>) =>
    results'[index][1].confidence = <<ConfidenceDeclared>>

C8_Pass3Heuristic == [][C8_Pass3Turn /\ C8_DeclaredTurn]_vars

C8_Witness ==
  /\ pc = "fill"
  /\ Cardinality(ResolvedRefs) = 2
  /\ results[1][1].confidence = <<ConfidenceHeuristic>>
  /\ results[2][1].confidence = <<ConfidenceDeclared>>
  /\ CandOf(1) = 2

\* t occurs in s at some offset
IsSubstring(t, s) ==
  \E off \in 0..(Len(s) - Len(t)) : \A k \in 1..Len(t) : s[off + k] = t[k]

\* the containment rule on normalized forms
NormalizedFormsMatch(a, b) ==
  LET n1 == normalizeInvoiceId(a)
      n2 == normalizeInvoiceId(b)
  IN \/ n1 = n2
     \/ Len(n1) > 2 /\ IsSubstring(n1, n2)
     \/ Len(n2) > 2 /\ IsSubstring(n2, n1)

\* equality on normalized forms, containment on cleaned forms (leading zeros kept)
CleanedFormsMatch(a, b) ==
  \/ normalizeInvoiceId(a) = normalizeInvoiceId(b)
  \/ Len(cleanString(a)) > 2 /\ IsSubstring(cleanString(a), cleanString(b))
  \/ Len(cleanString(b)) > 2 /\ IsSubstring(cleanString(b), cleanString(a))

\* C9 as stated: two identifiers match iff their normalized forms are equal or
\* one normalized form of length > 2 is a substring of the other normalized
\* form; the relation is symmetric, and a normalized identifier of length 2 or
\* less matches only by equality.
C9_OnNormalizedForms ==
  idRet # <<>> =>
    /\ idRet[1] = NormalizedFormsMatch(id1, id2)
    /\ idRet[1] = idRet[2]
    /\ (idRet[1] /\ (Len(normalizeInvoiceId(id1)) <= 2 \/ Len(normalizeInvoiceId(id2)) <= 2))
         => normalizeInvoiceId(id1) = normalizeInvoiceId(id2)

\* C9 amended: two identifiers match iff their normalized forms are equal or the
\* cleaned form (lower-cased, non-alphanumerics stripped, leading zeros kept) of
\* one has length > 2 and is a substring of the cleaned form of the other; the
\* relation is symmetric, and an identifier whose cleaned form has length 2 or
\* less matches only by equality of the normalized forms.
C9_OnCleanedForms ==
  idRet # <<>> =>
    /\ idRet[1] = CleanedFormsMatch(id1, id2)
    /\ idRet[1] = idRet[2]
    /\ (idRet[1] /\ (Len(cleanString(id1)) <= 2 \/ Len(cleanString(id2)) <= 2))
         => normalizeInvoiceId(id1) = normalizeInvoiceId(id2)

\* "001" against "0010": the normalized forms "1" and "10" neither are equal nor
\* contain one another, the cleaned form "001" is contained in "0010"
C9_Witness ==
  /\ idRet = <<TRUE, TRUE>>
  /\ id1 = <<"0", "0", "1">>
  /\ id2 = <<"0", "0", "1", "0">>
  /\ ~NormalizedFormsMatch(id1, id2)

RowWellFormed(r) ==
  /\ (r.originalReference # <<>> /\ r.extractedData # <<>>) =>
       /\ IsPairStatus(r.status)
       /\ (r.status = "MATCH") = (\A k \in 1..Len(r.fields) : r.fields[k].isMatch)
       /\ (r.status = "MISMATCH") = (\E k \in 1..Len(r.fields) : ~r.fields[k].isMatch)
  /\ IsPairStatus(r.status) => (r.originalReference # <<>> /\ r.extractedData # <<>>)
  /\ r.status = "MISSING_IN_PDF" => r.extractedData = <<>>
  /\ r.status = "MISSING_IN_EXCEL" =>
       (r.originalReference = <<>> /\ r.extractedData[1] \notin matchedPdfIndices)

\* C10: a row of a resolved pair has status MATCH iff every field of its field
\* list has isMatch true, and MISMATCH otherwise; a MISSING_IN_PDF or
\* MISSING_IN_EXCEL row is never the row of a resolved pair.
C10_StatusIffAllFieldsMatch ==
  /\ \A i \in RefIndices : results[i] # <<>> => RowWellFormed(results[i][1])
  /\ \A k \in 1..Len(finalResults) : RowWellFormed(finalResults[k])
  /\ \A i \in RefIndices :
       (results[i] # <<>> /\ results[i][1].status = "MISSING_IN_PDF") =>
          ~\E k \in 1..Len(finalResults) :
             /\ finalResults[k].originalReference = <<i>>
             /\ finalResults[k].status # "MISSING_IN_PDF"

C10_Witness ==
  /\ pc = "done"
  /\ Len(finalResults) = 2
  /\ finalResults[1].status = "MATCH"
  /\ finalResults[2].status = "MISMATCH"
  /\ Cardinality({k \in 1..9 : ~finalResults[2].fields[k].isMatch}) = 1

(***************************************************************************)
(* Order of the input lists.                                               *)
(***************************************************************************)
Perms(n) == {f \in [1..n -> 1..n] : \A a, b \in 1..n : a # b => f[a] # f[b]}

permute(L, f) == [k \in 1..Len(L) |-> L[f[k]]]

\* the record a row refers to on one side, <<>> when the side is absent
sideRecord(L, ref) == IF ref = <<>> THEN <<>> ELSE <<L[ref[1]]>>

classifiedPair(E, P, row) ==
  <<sideRecord(E, row.originalReference), sideRecord(P, row.extractedData), row.status>>

\* the multiset of the classified pairs of a result, as a function from the
\* pairs to their number of occurrences
Classified(E, P, rows) ==
  LET at(k) == classifiedPair(E, P, rows[k])
  IN [t \in {at(k) : k \in 1..Len(rows)} |->
        Cardinality({k \in 1..Len(rows) : at(k) = t})]

\* re-running compareInvoices on every reordering of one of the two lists
\* gives the multiset of classified pairs of the run that has returned
SameUnderReordering ==
  /\ \A f \in Perms(Len(excelData)) :
       Classified(permute(excelData, f), pdfData,
                  compareInvoices(permute(excelData, f), pdfData))
         = Classified(excelData, pdfData, finalResults)
  /\ \A g \in Perms(Len(pdfData)) :
       Classified(excelData, permute(pdfData, g),
                  compareInvoices(excelData, permute(pdfData, g)))
         = Classified(excelData, pdfData, finalResults)

\* one of the three passes can pair reference record i with candidate c when
\* nothing is claimed yet
Linkable(i, c) ==
  \/ isIdMatch(excelData[i].invoiceNumber, pdfData[c].invoiceNumber)
  \/ heuristicHit(excelData, pdfData, {}, i, c)

\* no record of either list can be paired with two records of the other
Unambiguous ==
  /\ \A i \in RefIndices : Cardinality({c \in CandIndices : Linkable(i, c)}) <= 1
  /\ \A c \in CandIndices : Cardinality({i \in RefIndices : Linkable(i, c)}) <= 1

\* C11 as stated: for any inputs, permuting the reference list or the
\* candidate list and re-running compareInvoices yields the same multiset of
\* classified pairs (reference record, candidate record, status).
C11_OrderIndependent ==
  pc = "done" => SameUnderReordering

\* C11: when no reference record can be paired (by the identifier rule or by
\* the date-and-total rule) with more than one candidate and no candidate with
\* more than one reference record, permuting the reference list or the
\* candidate list and re-running compareInvoices yields the same multiset of
\* classified pairs.
C11_OrderIndependentWhenUnambiguous ==
  (pc = "done" /\ Unambiguous) => SameUnderReordering

C11_Witness ==
  /\ pc = "done"
  /\ Unambiguous
  /\ Len(excelData) = 2
  /\ Len(pdfData) = 2
  /\ excelData[1] # excelData[2]
  /\ pdfData[1] # pdfData[2]
  /\ Cardinality(PairRows) = 2
  /\ \E k \in PairRows : finalResults[k].extractedData # finalResults[k].originalReference

\* the result of the run is the value of compareInvoices on its arguments
ReturnsFunctionValue ==
  pc = "done" => finalResults = compareInvoices(excelData, pdfData)
(***************************************************************************)
(* Dates that are not dates.                                               *)
(***************************************************************************)
\* a calendar date as text: three groups of digits separated by "-" or "/",
\* a year of four digits first or last, day and month of one or two digits
WellFormedDate(s) ==
  LET parts == split(slashesToDashes(trim(s)))
      short(p) == Len(p) \in 1..2 /\ AllDigits(p)
      year(p) == Len(p) = 4 /\ AllDigits(p)
  IN /\ Len(parts) = 3
     /\ short(parts[2])
     /\ \/ short(parts[1]) /\ year(parts[3])
        \/ year(parts[1]) /\ short(parts[3])

fieldNamed(row, name) ==
  row.fields[CHOOSE k \in 1..Len(row.fields) : row.fields[k].fieldName = name]

\* the pair in slot i has a date that is not a date on one side at least
MalformedDatePair(i) ==
  \/ ~WellFormedDate(excelData[i].invoiceDate)
  \/ ~WellFormedDate(pdfData[CandOf(i)].invoiceDate)

\* C12 as stated: in every resolved pair in which the issue date of either
\* side is unparsable or empty, the invoiceDate field is flagged non-matching,
\* also when both sides carry the same unparsable date, and the pair was not
\* made by the heuristic pass (whose date condition such a date never meets).
C12_MalformedDateNeverMatches ==
  \A i \in ResolvedRefs :
    MalformedDatePair(i) =>
      /\ ~fieldNamed(results[i][1], "invoiceDate").isMatch
      /\ results[i][1].matchMethod # "HEURISTIC"
(***************************************************************************)
(* formatDateToDisplay: what it returns.                                   *)
(***************************************************************************)
DateArg == callArgs[1]
DateRet == callRet[1]
DateRetAgain == callRet[2]
DateCalled == pc = "idle" /\ callArgs # <<>> /\ callRet # <<>>

\* the text splits at "-" and "/" into three groups of which the first or the
\* last has four characters
ThreeGroupsWithYear(s) ==
  LET parts == split(slashesToDashes(trim(s)))
  IN Len(parts) = 3 /\ (Len(parts[1]) = 4 \/ Len(parts[3]) = 4)

canonicalDate(d, m, y) == twoDigits(d) \o Dash \o twoDigits(m) \o Dash \o digitsOf(y)

\* C14 as stated: formatDateToDisplay applied twice gives what it gives applied
\* once, for every input; and every spelling of a calendar date (YYYY-MM-DD,
\* DD-MM-YYYY, DD/MM/YYYY, day and month zero-padded or not) is turned into
\* the same DD-MM-YYYY string.
C14_IdempotentAndFormatAgnostic ==
  DateCalled =>
    /\ DateRetAgain = DateRet
    /\ \A d \in Days, m \in Months, y \in Years :
         DateArg \in spellings(d, m, y) => DateRet = canonicalDate(d, m, y)
(***************************************************************************)
(* normalizeInvoiceId: what it returns.                                    *)
(***************************************************************************)
IdCalled == pc = "idle" /\ callArgs # <<>> /\ callRet # <<>>

HasLetter(s) == \E k \in 1..Len(s) : IsLower(s[k]) \/ IsUpper(s[k])

\* C15 as stated: normalizeInvoiceId applied twice gives what it gives applied
\* once, for every input string; an all-digit identifier and the same
\* identifier with one more leading zero have the same normalized form; and an
\* identifier containing a letter keeps its cleaned text, leading zeros
\* included.
C15_IdempotentAndZeroInsensitive ==
  IdCalled =>
    /\ callRet[2] = callRet[1]
    /\ AllDigits(callArgs[1]) => callRet[3] = callRet[1]
    /\ HasLetter(callArgs[1]) => callRet[1] = cleanString(callArgs[1])
(***************************************************************************)
(* compareNumbers: the tolerance.                                          *)
(***************************************************************************)
NumbersCalled == pc = "idle" /\ Len(callArgs) = 2 /\ callRet # <<>>

\* the distance of the two amounts is at most 1.0, that is 100 hundredths
WithinOne == Abs(callArgs[1] - callArgs[2]) <= 100

fieldNames(row) == {row.fields[k].fieldName : k \in 1..Len(row.fields)}

\* the row holds a total-amount field and an issue-date field and nothing
\* else, none of them flagged as matching
CarriesTotalAndDate(row) ==
  /\ Len(row.fields) = 2
  /\ fieldNames(row) = {"totalAmount", "invoiceDate"}
  /\ \A k \in 1..Len(row.fields) : ~row.fields[k].isMatch

\* C17 as stated: every MISSING_IN_PDF row and every MISSING_IN_EXCEL row
\* carries exactly a total-amount and an issue-date field holding the values
\* of its single record (as excelValue for a reference-only row, as pdfValue
\* for a candidate-only row), each flagged non-matching.
C17_MissingRowsCarryTotalAndDate ==
  pc = "done" =>
    \A k \in 1..Len(finalResults) :
      LET row == finalResults[k]
      IN /\ row.status = "MISSING_IN_PDF" =>
              /\ CarriesTotalAndDate(row)
              /\ fieldNamed(row, "totalAmount").excelValue
                   = Num(excelData[row.originalReference[1]].totalAmount)
              /\ fieldNamed(row, "invoiceDate").excelValue
                   = Str(excelData[row.originalReference[1]].invoiceDate)
         /\ row.status = "MISSING_IN_EXCEL" =>
              /\ CarriesTotalAndDate(row)
              /\ fieldNamed(row, "totalAmount").pdfValue
                   = Num(pdfData[row.extractedData[1]].totalAmount)
              /\ fieldNamed(row, "invoiceDate").pdfValue
                   = Str(pdfData[row.extractedData[1]].invoiceDate)
(***************************************************************************)
(* A null or undefined argument.                                           *)
(***************************************************************************)
\* compareInvoices has not got beyond its first statement
AtFirstStatement == pc = "pass1" /\ index = 1

InputsUntouched ==
  /\ excelData' = excelData
  /\ pdfData' = pdfData

\* C19: no step of compareInvoices changes the reference list or the candidate
\* list: length, order and every field of every record stay as they were, and
\* the rows refer to the records by position only.
C19_InputsUnchanged == [][InputsUntouched]_vars

C19_Witness ==
  /\ pc = "done"
  /\ Len(excelData) = 2
  /\ Len(pdfData) = 2
  /\ Cardinality(PairRows) = 1
  /\ Len(finalResults) = 3
  /\ \E k \in PairRows :
       excelData[finalResults[k].originalReference[1]].invoiceNumber
         # pdfData[finalResults[k].extractedData[1]].invoiceNumber
(***************************************************************************)
(* Invocations side by side.                                               *)
(***************************************************************************)
\* the candidates held by the resolved slots of invocation c
claimedBy(c) ==
  {c.results[i][1].extractedData[1] :
     i \in {j \in 1..Len(c.results) :
              c.results[j] # <<>> /\ IsPairStatus(c.results[j][1].status)}}

\* C20: however the steps of two invocations are interleaved, the claimed set
\* of each holds its own claims only, its arguments stay its own, and what it
\* returns is the value of compareInvoices on its two lists, the result of
\* running it alone.
C20_InvocationsIndependent ==
  Len(calls) = 2 =>
    \A k \in 1..2 :
      /\ calls[k].matched = claimedBy(calls[k])
      /\ calls[k].pc = "done" =>
           calls[k].finalResults = compareInvoices(calls[k].excelData, calls[k].pdfData)

C20_Witness ==
  /\ Len(calls) = 2
  /\ calls[1].pc = "pass2"
  /\ calls[2].pc = "pass2"
  /\ calls[1].matched = {1}
  /\ calls[2].matched = {1}
  /\ calls[1].excelData = calls[2].excelData
(***************************************************************************)
(* Termination on valid lists.                                             *)
(***************************************************************************)
\* nothing was paired: every record has a row of its own, MISSING_IN_PDF for
\* a reference record and MISSING_IN_EXCEL for a candidate
OnlyMissingRows ==
  /\ Len(finalResults) = Len(excelData) + Len(pdfData)
  /\ \A i \in RefIndices :
       /\ finalResults[i].status = "MISSING_IN_PDF"
       /\ finalResults[i].originalReference = <<i>>
  /\ \A c \in CandIndices :
       /\ finalResults[Len(excelData) + c].status = "MISSING_IN_EXCEL"
       /\ finalResults[Len(excelData) + c].extractedData = <<c>>

\* C21: for lists of records with empty or unparsable dates and empty
\* identifiers, names and tax ids, compareInvoices reaches its return, throws
\* nothing on the way, returns a row for every record, and when it paired
\* nothing returns only MISSING_IN_PDF and MISSING_IN_EXCEL rows, one per
\* record.
C21_TerminatesWithoutThrowing ==
  /\ <>(pc = "done")
  /\ [](thrown = "none")
  /\ [](pc = "done" =>
          /\ \A i \in RefIndices : Cardinality(RowsOfRef(i)) = 1
          /\ \A c \in CandIndices : Cardinality(RowsOfCand(c)) = 1
          /\ (PairRows = {} => OnlyMissingRows))

C21_Witness ==
  /\ pc = "done"
  /\ PairRows = {}
  /\ Len(excelData) = 2
  /\ Len(pdfData) = 2
  /\ excelData[1] = RefBlank
  /\ excelData[2].invoiceDate = <<"N", "/", "A">>
(***************************************************************************)
(* The history in localStorage (historyService.ts:109-169).  storage is   *)
(* what localStorage holds under the key of the user: <<>> for null, else *)
(* <<list>> for the JSON text of a list of items.  An item is known by    *)
(* its id, the decimal text of Date.now(), kept as the number it spells;  *)
(* clock is the time Date.now() returns, and it does not go back.         *)
(***************************************************************************)
MaxTime == 2

\* the 20 of slice(0, 20)
MaxHistory == 20

UserIds == {<<>>, <<"u">>}

JSONstringify(value) == <<value>>
JSONparse(text) == text[1]

getHistory(userId) ==
  IF userId = <<>> THEN <<>>
  ELSE IF storage # <<>> THEN JSONparse(storage) ELSE <<>>

\* Array.prototype.slice(0, n)
slice(list, n) == IF Len(list) <= n THEN list ELSE SubSeq(list, 1, n)

\* prepended with the new item put last
appended(newItem, history) == slice(history \o <<newItem>>, MaxHistory)

\* [newItem, ...history].slice(0, 20)
prepended(newItem, history) == slice(<<newItem>> \o history, MaxHistory)

\* saveSession: what it leaves in localStorage and what it returns; quota
\* tells that localStorage.setItem throws
saveSession(userId, quota) ==
  IF userId = <<>> THEN [storage |-> storage, ret |-> <<>>]
  ELSE LET history == getHistory(userId)
           newItem == [id |-> clock]
           updated == prepended(newItem, history)
       IN IF quota THEN [storage |-> storage, ret |-> <<>>]
          ELSE [storage |-> JSONstringify(updated), ret |-> <<newItem>>]

deleteSession(userId, id) ==
  IF userId = <<>> THEN [storage |-> storage, ret |-> <<>>]
  ELSE LET history == getHistory(userId)
           Keep(h) == h.id # id
           updated == SelectSeq(history, Keep)
       IN [storage |-> JSONstringify(updated), ret |-> updated]

InitHistory ==
  /\ storage = <<>>
  /\ clock = 1
  /\ newStats = <<>>
  /\ app = <<>>
  /\ runs = <<>>
  /\ MainIdle
  /\ IdIdle
  /\ NoCall
  /\ NoNulls
  /\ Alone

\* time passes between two calls
Tick ==
  /\ pc = "idle"
  /\ clock >= 1
  /\ clock < MaxTime
  /\ clock' = clock + 1
  /\ UNCHANGED <<storage, callArgs, callRet>>
  /\ UNCHANGED <<excelData, pdfData, results, matchedPdfIndices, finalResults, pc, index>>
  /\ UNCHANGED <<id1, id2, idRet, nullInputs, thrown, calls, newStats, app, runs>>

CallSaveSession ==
  /\ pc = "idle"
  /\ clock >= 1
  /\ \E userId \in UserIds, quota \in BOOLEAN :
       LET out == saveSession(userId, quota)
       IN /\ callArgs' = <<"saveSession", userId>>
          /\ callRet' = out.ret
          /\ storage' = out.storage
  /\ UNCHANGED <<excelData, pdfData, results, matchedPdfIndices, finalResults, pc, index>>
  /\ UNCHANGED <<id1, id2, idRet, nullInputs, thrown, calls, newStats, app, runs, clock>>

CallDeleteSession ==
  /\ pc = "idle"
  /\ clock >= 1
  /\ \E userId \in UserIds, id \in 1..MaxTime :
       LET out == deleteSession(userId, id)
       IN /\ callArgs' = <<"deleteSession", userId, id>>
          /\ callRet' = out.ret
          /\ storage' = out.storage
  /\ UNCHANGED <<excelData, pdfData, results, matchedPdfIndices, finalResults, pc, index>>
  /\ UNCHANGED <<id1, id2, idRet, nullInputs, thrown, calls, newStats, app, runs, clock>>

NextHistory == Tick \/ CallSaveSession \/ CallDeleteSession

SpecHistory == InitHistory /\ [][NextHistory]_vars

(***************************************************************************)
(* createSortedPdf (part_001:4-50), called on its own with the page count *)
(* of the loaded document and a list of rows.  A row has its status and   *)
(* extractedData, which is <<>> or <<record>>; pageRange is <<>> or       *)
(* <<[start, end]>>, and 0 stands for a number that is missing.  The      *)
(* result is the list of the page indices added to newPdfDoc.             *)
(***************************************************************************)
MaxPages == 2
MaxRows == 2

PageRanges ==
  {<<>>} \cup {<<[start |-> a, end |-> b]>> : a \in 0..(MaxPages + 1), b \in 0..(MaxPages + 1)}

\* the rows compareInvoices builds: extractedData is missing in a
\* MISSING_IN_PDF row only
SortedRows ==
  {[status |-> "MISSING_IN_PDF", extractedData |-> <<>>]}
    \cup {[status |-> st, extractedData |-> <<[pageRange |-> r]>>] :
            st \in {"MATCH", "MISMATCH", "MISSING_IN_EXCEL"}, r \in PageRanges}

\* the indices pushed by the for loop from startIdx to endIdx
pageIndices(start, end, totalPages) ==
  LET startIdx == start - 1
      endIdx == IF end # 0 THEN (IF end < totalPages THEN end ELSE totalPages) - 1
                ELSE startIdx
  IN [k \in 1..(endIdx - startIdx + 1) |-> startIdx + k - 1]

\* the pages one iteration of the loop over results adds
copiedPages(result, totalPages) ==
  IF result.extractedData # <<>> /\ result.extractedData[1].pageRange # <<>>
    THEN LET range == result.extractedData[1].pageRange[1]
         IN IF range.start > 0 /\ range.start <= totalPages
              THEN pageIndices(range.start, range.end, totalPages)
              ELSE <<>>
    ELSE <<>>

RECURSIVE createSortedPdf(_, _)
createSortedPdf(totalPages, rows) ==
  IF rows = <<>> THEN <<>>
  ELSE copiedPages(Head(rows), totalPages) \o createSortedPdf(totalPages, Tail(rows))

InitSortedPdf ==
  /\ callArgs \in {<<totalPages, rows>> :
                     totalPages \in 1..MaxPages, rows \in SeqsUpTo(SortedRows, MaxRows)}
  /\ callRet = <<>>
  /\ MainIdle
  /\ IdIdle
  /\ NoNulls
  /\ Alone
  /\ NoApp

CallCreateSortedPdf ==
  /\ pc = "idle"
  /\ callRet = <<>>
  /\ callArgs # <<>>
  /\ callRet' = <<createSortedPdf(callArgs[1], callArgs[2])>>
  /\ UNCHANGED <<excelData, pdfData, results, matchedPdfIndices, finalResults, pc, index>>
  /\ UNCHANGED <<id1, id2, idRet, callArgs, nullInputs, thrown, calls>>
  /\ UNCHANGED <<newStats, appVars>>

NextSortedPdf == CallCreateSortedPdf

SpecSortedPdf == InitSortedPdf /\ [][NextSortedPdf]_vars

(***************************************************************************)
(* The App component (App.tsx), matcher tool.  app is its React state: a  *)
(* file is a number from 1 to MaxFiles and 0 is null; results is <<>> for *)
(* the empty list, else <<[excelFile, pdfFile]>>, the files the rows were *)
(* computed from (0 and 0 for the rows of a history item); stats and      *)
(* error tell whether the state is not null.  runs holds the closure of   *)
(* the processMatcher call in flight, with the files it read.             *)
(***************************************************************************)
MaxFiles == 2

InitApp ==
  /\ app = [excelFile |-> 0, pdfFile |-> 0, results |-> <<>>, stats |-> FALSE,
            loadedFromHistory |-> FALSE, view |-> "upload", isProcessing |-> FALSE,
            error |-> FALSE]
  /\ runs = <<>>
  /\ newStats = <<>>
  /\ storage = <<>>
  /\ clock = 0
  /\ MainIdle
  /\ IdIdle
  /\ NoCall
  /\ NoNulls
  /\ Alone

\* what no handler of the App component touches
outsideApp ==
  <<excelData, pdfData, results, matchedPdfIndices, finalResults, pc, index,
    id1, id2, idRet, callRet, nullInputs, thrown, calls, newStats, storage, clock>>

\* the state after the setters that handleExcelUpload and handlePdfUpload share
uploaded(a) ==
  IF a.view = "results" /\ a.loadedFromHistory
    THEN [a EXCEPT !.results = <<>>, !.stats = FALSE, !.loadedFromHistory = FALSE,
                   !.view = "upload", !.error = FALSE]
    ELSE [a EXCEPT !.results = <<>>, !.stats = FALSE, !.error = FALSE]

\* the file inputs are rendered in the upload view, whether a run is in flight or not
handleExcelUpload ==
  /\ app.view = "upload"
  /\ \E file \in 1..MaxFiles : app' = uploaded([app EXCEPT !.excelFile = file])
  /\ UNCHANGED <<runs, callArgs, outsideApp>>

handlePdfUpload ==
  /\ app.view = "upload"
  /\ \E file \in 1..MaxFiles : app' = uploaded([app EXCEPT !.pdfFile = file])
  /\ UNCHANGED <<runs, callArgs, outsideApp>>

\* processMatcher up to its first await; the button is disabled without both
\* files and while isProcessing
processMatcher ==
  /\ app.view = "upload"
  /\ app.excelFile # 0
  /\ app.pdfFile # 0
  /\ ~app.isProcessing
  /\ app' = [app EXCEPT !.isProcessing = TRUE, !.error = FALSE]
  /\ runs' = <<[excelFile |-> app.excelFile, pdfFile |-> app.pdfFile, saved |-> FALSE]>>
  /\ UNCHANGED <<callArgs, outsideApp>>

\* processMatcher from the return of the awaited calls to await saveSession
setResults ==
  /\ runs # <<>>
  /\ ~runs[1].saved
  /\ app' = [app EXCEPT !.results = <<[excelFile |-> runs[1].excelFile,
                                       pdfFile |-> runs[1].pdfFile]>>,
                        !.stats = TRUE, !.loadedFromHistory = FALSE, !.view = "results"]
  /\ runs' = <<[runs[1] EXCEPT !.saved = TRUE]>>
  /\ UNCHANGED <<callArgs, outsideApp>>

\* processMatcher after await saveSession: the finally block
finallyProcessed ==
  /\ runs # <<>>
  /\ runs[1].saved
  /\ app' = [app EXCEPT !.isProcessing = FALSE]
  /\ runs' = <<>>
  /\ UNCHANGED <<callArgs, outsideApp>>

\* an awaited call of processMatcher rejects: catch and finally
catchProcessing ==
  /\ runs # <<>>
  /\ ~runs[1].saved
  /\ app' = [app EXCEPT !.error = TRUE, !.isProcessing = FALSE]
  /\ runs' = <<>>
  /\ UNCHANGED <<callArgs, outsideApp>>

\* the history button of the header
showHistory ==
  /\ app' = [app EXCEPT !.view = "history"]
  /\ UNCHANGED <<runs, callArgs, outsideApp>>

\* the logo of the header
showUpload ==
  /\ app' = IF app.loadedFromHistory
              THEN [app EXCEPT !.view = "upload", !.results = <<>>, !.stats = FALSE,
                               !.loadedFromHistory = FALSE]
              ELSE [app EXCEPT !.view = "upload"]
  /\ UNCHANGED <<runs, callArgs, outsideApp>>

handleSelectHistory ==
  /\ app.view = "history"
  /\ app' = [app EXCEPT !.results = <<[excelFile |-> 0, pdfFile |-> 0]>>, !.stats = TRUE,
                        !.loadedFromHistory = TRUE, !.excelFile = 0, !.pdfFile = 0,
                        !.view = "results"]
  /\ UNCHANGED <<runs, callArgs, outsideApp>>

\* the results and their buttons are rendered
resultsShown == (app.view = "results" \/ app.view = "upload") /\ app.stats

\* the Start Again button under the results
startAgain ==
  /\ resultsShown
  /\ app' = [app EXCEPT !.results = <<>>, !.stats = FALSE, !.loadedFromHistory = FALSE,
                        !.view = "upload"]
  /\ UNCHANGED <<runs, callArgs, outsideApp>>

\* Get Sorted PDF: callArgs takes the file handed to createSortedPdf and the
\* PDF file the rows handed to it were computed from
handleDownloadSortedPdf ==
  /\ resultsShown
  /\ ~app.loadedFromHistory
  /\ app.pdfFile # 0
  /\ app.results # <<>>
  /\ callArgs' = <<app.pdfFile, app.results[1].pdfFile>>
  /\ UNCHANGED <<app, runs, outsideApp>>

NextApp ==
  \/ handleExcelUpload
  \/ handlePdfUpload
  \/ processMatcher
  \/ setResults
  \/ finallyProcessed
  \/ catchProcessing
  \/ showHistory
  \/ showUpload
  \/ handleSelectHistory
  \/ startAgain
  \/ handleDownloadSortedPdf

SpecApp == InitApp /\ [][NextApp]_vars

(***************************************************************************)
(* Slots and claims are final.                                             *)
(***************************************************************************)
\* a step leaves every filled slot as it is, takes nothing out of the claimed
\* set, and a slot it fills with a pair takes a candidate that was unclaimed
SlotsAndClaimsKept ==
  /\ Len(results') = Len(results)
  /\ \A i \in 1..Len(results) : results[i] # <<>> => results'[i] = results[i]
  /\ matchedPdfIndices \subseteq matchedPdfIndices'
  /\ \A i \in 1..Len(results) :
       (results[i] = <<>> /\ results'[i] # <<>> /\ IsPairStatus(results'[i][1].status)) =>
         /\ results'[i][1].extractedData[1] \notin matchedPdfIndices
         /\ matchedPdfIndices' = matchedPdfIndices \cup {results'[i][1].extractedData[1]}

\* C22: once the slot of a reference record is filled or a candidate index is
\* in the claimed set, no later step of the same or of a later pass changes
\* the slot, links the record again, or removes or reuses the candidate; the
\* claimed set only grows.
C22_ResolvedStaysResolved == [][SlotsAndClaimsKept]_vars

C22_Witness ==
  /\ pc = "pass3"
  /\ Len(results) = 2
  /\ results[1] # <<>>
  /\ results[2] # <<>>
  /\ IsPairStatus(results[1][1].status)
  /\ IsPairStatus(results[2][1].status)
  /\ SameTaxId(1, CandOf(1))
  /\ ~SameTaxId(2, CandOf(2))
  /\ matchedPdfIndices = {1, 2}
(***************************************************************************)
(* The fields of a matched row.                                            *)
(***************************************************************************)
FieldOrder ==
  <<"vendorName", "gstNumber", "invoiceNumber", "invoiceDate", "taxableAmount",
    "cgstAmount", "sgstAmount", "igstAmount", "totalAmount">>

\* t occurs in s as a run of consecutive characters
OccursIn(t, s) ==
  \E from \in 1..(Len(s) + 1) :
    /\ from + Len(t) - 1 <= Len(s)
    /\ \A j \in 1..Len(t) : s[from + j - 1] = t[j]

NamesAgree(a, b) ==
  LET na == cleanString(a.vendorName)
      nb == cleanString(b.vendorName)
  IN na = nb \/ OccursIn(na, nb) \/ OccursIn(nb, na)

\* an absent tax amount counts as zero
AsZero(x) == IF Len(x) = 0 THEN 0 ELSE x[1]

TaxAgree(x, y) ==
  /\ AsZero(x) - AsZero(y) <= Epsilon
  /\ AsZero(y) - AsZero(x) <= Epsilon

FieldsOfPair(row) ==
  LET a == excelData[row.originalReference[1]]
      b == pdfData[row.extractedData[1]]
  IN /\ Len(row.fields) = Len(FieldOrder)
     /\ \A k \in 1..Len(FieldOrder) : row.fields[k].fieldName = FieldOrder[k]
     /\ row.fields[1].isMatch <=> NamesAgree(a, b)
     /\ row.fields[2].isMatch <=> cleanString(a.gstNumber) = cleanString(b.gstNumber)
     /\ row.fields[6].isMatch <=> TaxAgree(a.cgstAmount, b.cgstAmount)
     /\ row.fields[7].isMatch <=> TaxAgree(a.sgstAmount, b.sgstAmount)
     /\ row.fields[8].isMatch <=> TaxAgree(a.igstAmount, b.igstAmount)
     /\ row.fields[6].excelValue.n = AsZero(a.cgstAmount)
     /\ row.fields[6].pdfValue.n = AsZero(b.cgstAmount)
     /\ row.fields[7].excelValue.n = AsZero(a.sgstAmount)
     /\ row.fields[7].pdfValue.n = AsZero(b.sgstAmount)
     /\ row.fields[8].excelValue.n = AsZero(a.igstAmount)
     /\ row.fields[8].pdfValue.n = AsZero(b.igstAmount)

\* C23: every matched row of the returned list carries its fields in the
\* order vendor name, tax id, identifier, issue date, taxable amount, CGST,
\* SGST, IGST, total amount; the name field matches iff the normalized names
\* are equal or one contains the other, the tax id field iff the normalized
\* tax ids are equal, and a tax component missing on either side is shown
\* and compared as zero.
C23_FieldsInFixedOrder ==
  pc = "done" => \A k \in PairRows : FieldsOfPair(finalResults[k])

\* a returned pair whose names differ and contain one another, with a tax
\* component missing on one side only
C23_Witness ==
  /\ pc = "done"
  /\ \E k \in PairRows :
       LET a == excelData[finalResults[k].originalReference[1]]
           b == pdfData[finalResults[k].extractedData[1]]
       IN /\ cleanString(a.vendorName) # cleanString(b.vendorName)
          /\ finalResults[k].fields[1].isMatch
          /\ a.igstAmount = <<>>
          /\ b.igstAmount # <<>>
          /\ finalResults[k].fields[8].isMatch
(***************************************************************************)
(* The passes are ordered for the whole list.                              *)
(***************************************************************************)
\* reference records that share one identifier, one of them without a tax id,
\* and candidates with that identifier, with and without a tax id
RefNoTaxId == Inv(<<"1", "0", "0">>, <<>>, <<>>, <<>>, 0, <<>>, <<>>, <<>>, 0)
CandNoTaxId == Inv(<<"1", "0", "0">>, <<>>, <<>>, <<>>, 0, <<>>, <<>>, <<>>, 0)
PassOrderExcelPool == {Ref1, Ref2, RefNoTaxId}
PassOrderPdfPool == {Cand1, CandNoTaxId}

InitPassOrder ==
  /\ excelData \in SeqsUpTo(PassOrderExcelPool, MaxExcel)
  /\ pdfData \in SeqsUpTo(PassOrderPdfPool, MaxPdf)
  /\ results = [k \in 1..Len(excelData) |-> <<>>]
  /\ matchedPdfIndices = {}
  /\ finalResults = <<>>
  /\ pc = "pass1"
  /\ index = 1
  /\ thrown = "none"
  /\ IdIdle
  /\ NoCall
  /\ NoNulls
  /\ Alone
  /\ NoApp

SpecPassOrder == InitPassOrder /\ [][NextValid]_vars

LoopOrder == <<"pass1", "pass2", "pass3", "fill", "filter", "push", "done">>

PlaceOf(p) == CHOOSE k \in 1..Len(LoopOrder) : LoopOrder[k] = p

\* the step claims candidate c for the reference record at hand
Claims(c) ==
  /\ index <= Len(excelData)
  /\ c \notin matchedPdfIndices
  /\ ResolvesTo(c)

AgreesOnIdAndTaxId(j, c) ==
  /\ isIdMatch(excelData[j].invoiceNumber, pdfData[c].invoiceNumber)
  /\ SameTaxId(j, c)

\* the loops run one after the other, and claims are made in passes 1 to 3 only
PassesInOrder ==
  /\ PlaceOf(pc') >= PlaceOf(pc)
  /\ matchedPdfIndices' # matchedPdfIndices => pc' = pc /\ pc \in {"pass1", "pass2", "pass3"}

\* the step is a claim of pass 2 or pass 3
LaterClaim(c) == pc \in {"pass2", "pass3"} /\ Claims(c)

IdFlag(row) == fieldNamed(row, "invoiceNumber").isMatch

\* C25: in the returned list, a matched row has confidence 1.0 if and only if
\* its invoiceNumber field is flagged matching, it has no other confidence
\* than 1.0 and 0.8, and a row with confidence 0.8 has status MISMATCH.
C25_ConfidenceFollowsIdFlag ==
  pc = "done" =>
    \A k \in PairRows :
      /\ finalResults[k].confidence \in {<<ConfidenceDeclared>>, <<ConfidenceHeuristic>>}
      /\ finalResults[k].confidence = <<ConfidenceDeclared>> <=> IdFlag(finalResults[k])
      /\ finalResults[k].confidence = <<ConfidenceHeuristic>> =>
           finalResults[k].status = "MISMATCH"

\* a returned list with a pair of each confidence, the heuristic pair with
\* every field but the identifier flagged matching
C25_Witness ==
  /\ pc = "done"
  /\ \E k \in PairRows : finalResults[k].confidence = <<ConfidenceDeclared>>
  /\ \E k \in PairRows :
       /\ finalResults[k].confidence = <<ConfidenceHeuristic>>
       /\ \A f \in 1..Len(finalResults[k].fields) :
            finalResults[k].fields[f].fieldName # "invoiceNumber" =>
              finalResults[k].fields[f].isMatch
(***************************************************************************)
(* Nothing that could be paired is returned unpaired.                      *)
(***************************************************************************)
MissingInPdf == {k \in 1..Len(finalResults) : finalResults[k].status = "MISSING_IN_PDF"}
MissingInExcel == {k \in 1..Len(finalResults) : finalResults[k].status = "MISSING_IN_EXCEL"}

\* the records of the two rows could have been paired by pass 2 or by pass 3
CouldPair(k, m) ==
  LET i == finalResults[k].originalReference[1]
      c == finalResults[m].extractedData[1]
  IN \/ isIdMatch(excelData[i].invoiceNumber, pdfData[c].invoiceNumber)
     \/ TotalWithinTolerance(i, c) /\ SameNormalizedDate(i, c)

\* C26: the returned list has no MISSING_IN_PDF row and MISSING_IN_EXCEL row
\* whose records have matching identifiers, or total amounts within the
\* tolerance together with equal normalized dates.
C26_NoMatchLeft ==
  pc = "done" => \A k \in MissingInPdf : \A m \in MissingInExcel : ~CouldPair(k, m)

\* a returned list with a row of either kind next to a pair
C26_Witness ==
  /\ pc = "done"
  /\ MissingInPdf # {}
  /\ MissingInExcel # {}
  /\ PairRows # {}
(***************************************************************************)
(* The statistics of processMatcher.                                       *)
(***************************************************************************)
Paired(st) == st.matched + st.mismatches

\* C27: the statistics of processMatcher partition the rows: matched,
\* mismatches and missing add up to the number of rows, matched and
\* mismatches together exceed neither totalExcel nor totalPdf, and missing
\* is the number of reference records without a pair plus the number of
\* candidates without a pair.
C27_StatsPartitionRows ==
  newStats # <<>> =>
    LET st == newStats[1]
    IN /\ st.matched + st.mismatches + st.missing = Len(finalResults)
       /\ Paired(st) <= st.totalExcel
       /\ Paired(st) <= st.totalPdf
       /\ st.missing = (st.totalExcel - Paired(st)) + (st.totalPdf - Paired(st))

\* statistics with a row of every status counted
C27_Witness ==
  /\ newStats # <<>>
  /\ newStats[1].matched = 1
  /\ newStats[1].mismatches = 1
  /\ newStats[1].totalExcel = 2
  /\ newStats[1].totalPdf = 2
(***************************************************************************)
(* The stored history.                                                     *)
(***************************************************************************)
Stored == IF storage = <<>> THEN <<>> ELSE storage[1]
StoredNext == IF storage' = <<>> THEN <<>> ELSE storage'[1]

\* the step is a call of saveSession that returned an item
SavedItem ==
  /\ clock' = clock
  /\ callArgs'[1] = "saveSession"
  /\ callRet' # <<>>

\* the step is a call of deleteSession for the user
DeletedId(id) ==
  /\ clock' = clock
  /\ callArgs' = <<"deleteSession", <<"u">>, id>>

\* how many of the first k stored items have the id
Before(k, id) == Cardinality({j \in 1..(k - 1) : Stored[j].id = id})

NewItemFirst ==
  /\ StoredNext[1] = callRet'[1]
  /\ Len(StoredNext) = (IF Len(Stored) < MaxHistory THEN Len(Stored) + 1 ELSE MaxHistory)
  /\ \A k \in 1..Len(Stored) : k < MaxHistory => StoredNext[k + 1] = Stored[k]

OnlyIdRemoved(id) ==
  /\ Len(StoredNext) = Len(Stored) - Before(Len(Stored) + 1, id)
  /\ \A k \in 1..Len(Stored) :
       Stored[k].id # id => StoredNext[k - Before(k, id)] = Stored[k]

SortedCalled == pc = "idle" /\ callArgs # <<>> /\ callRet # <<>>

\* the pages a row stands for: those of a pair with a start page between 1
\* and totalPages and an end page not below it, up to the last page
GroupOf(row, totalPages) ==
  IF /\ row.status \in {"MATCH", "MISMATCH"}
     /\ row.extractedData # <<>>
     /\ row.extractedData[1].pageRange # <<>>
    THEN LET range == row.extractedData[1].pageRange[1]
             last == IF range.end > totalPages THEN totalPages ELSE range.end
         IN IF range.start >= 1 /\ range.start <= totalPages /\ range.end >= range.start
              THEN [k \in 1..(last - range.start + 1) |-> range.start + k - 2]
              ELSE <<>>
    ELSE <<>>

RECURSIVE GroupsOf(_, _)
GroupsOf(rows, totalPages) ==
  IF rows = <<>> THEN <<>>
  ELSE GroupOf(rows[1], totalPages) \o GroupsOf(Tail(rows), totalPages)

\* C29 as stated: createSortedPdf copies the page groups in the order of the
\* rows, for MATCH and MISMATCH rows only; every index copied is between 0
\* and totalPages - 1; a row with a start page below 1 or above totalPages,
\* or with an end page below its start page, adds nothing, and an end page
\* above totalPages counts as the last page.
C29_PairPagesInRowOrder ==
  SortedCalled =>
    /\ callRet[1] = GroupsOf(callArgs[2], callArgs[1])
    /\ \A k \in 1..Len(callRet[1]) : callRet[1][k] >= 0 /\ callRet[1][k] <= callArgs[1] - 1
(***************************************************************************)
(* The results on screen and the files selected.                           *)
(***************************************************************************)
\* C30 as stated: results on screen that were not loaded from history were
\* computed from the Excel file and the PDF file now selected, and Get
\* Sorted PDF hands createSortedPdf the PDF file its rows were computed from.
C30_ResultsOfSelectedFiles ==
  /\ (app # <<>> /\ app.view = "results" /\ ~app.loadedFromHistory /\ app.results # <<>>) =>
       /\ app.results[1].excelFile = app.excelFile
       /\ app.results[1].pdfFile = app.pdfFile
  /\ (app # <<>> /\ callArgs # <<>>) => callArgs[1] = callArgs[2]
====
